---- MODULE Spec2Model ----
(***************************************************************************)
(* Risk annotation and avoidance routing pipeline of the sentry backend.   *)
(*                                                                         *)
(*   app/services/safety_area_service.py  timed_cache, get_safety_polygons *)
(*   app/services/routing_service.py      _bisect_bbox,                    *)
(*                                        build_avoid_multipolygon,        *)
(*                                        build_ors_payload, call_ors      *)
(*   app/routes/route.py                  point_in_polygon,                *)
(*                                        check_point_in_forbidden_zones,  *)
(*                                        safe_route                       *)
(*   app/routes/safety.py                 safety_areas                     *)
(*                                                                         *)
(* Units.  Coordinates are integers in micro-degrees (1e-6 degree), so     *)
(* round(x, 6) is the identity and round(x, 5) rounds to a multiple of 10. *)
(* Probabilities and safety scores are integers in 1e-4, so round(x, 3)    *)
(* rounds to a multiple of 10.  Air-quality values are integers in 1e-2,   *)
(* so round(x, 1) rounds to a multiple of 10.  The clock counts minutes.   *)
(*                                                                         *)
(* Tasks are asyncio coroutines on one event loop: a step of the model is  *)
(* the code a coroutine runs between two suspension points (await of an    *)
(* external call), so everything between two awaits is one atomic action.  *)
(***************************************************************************)
EXTENDS Integers, Sequences, FiniteSets, TLC

\* ---------------------------------------------------------------- bounds
Tasks == {1, 2}
MaxTime == 45
MaxPasses == 2
TickSteps == {15}
MaxFeatures == 3    \* zones in a dataset handed to build_avoid_multipolygon
MaxLimit == 3       \* largest limit handed to build_avoid_multipolygon
MaxRing == 3        \* vertices of a ring handed to _bisect_bbox
MaxShift == 3       \* largest rotation of a ring's starting vertex
MaxClasses == 3     \* classes of the label encoder, entries of a probability vector
MaxStations == 2    \* longest list of stations asked of fetch_aqi_from_gemini
MaxLevels == 3
MaxRetries == 2     \* largest max_retries of fetch_aqi_from_gemini

\* ------------------------------------------------------ program constants
CacheTtl == 30
DefaultAqi == 15000
MaxAqi == 100000
DefaultScore == 5000
SafeThreshold == 7000
CautionThreshold == 4000
AvoidLimit == 30
FallbackStatuses == {400, 404, 413, 504}
None == "None"
NoneRing == <<"None">>
NoneGeometry == [type |-> "None"]
Absent == 0 - 1

\* ----------------------------------------------------------- small helpers
Min2(a, b) == IF a <= b THEN a ELSE b
Max2(a, b) == IF a >= b THEN a ELSE b

RECURSIVE SeqMin(_)
SeqMin(s) == IF Len(s) = 1 THEN s[1] ELSE Min2(s[1], SeqMin(Tail(s)))

RECURSIVE SeqMax(_)
SeqMax(s) == IF Len(s) = 1 THEN s[1] ELSE Max2(s[1], SeqMax(Tail(s)))

\* floor(log2(x / scale)) for x > 0: the binary exponent of the float x / scale
BinaryExponent(x, scale) ==
    IF x >= scale
    THEN CHOOSE t \in 0..30 : 2^t <= x \div scale /\ (t = 30 \/ x \div scale < 2^(t + 1))
    ELSE 0 - (CHOOSE s \in 1..30 : /\ 2^s >= (scale + x - 1) \div x
                                   /\ 2^(s - 1) < (scale + x - 1) \div x)

\* 2^e % scale
Pow2Mod(e, scale) ==
    LET f[i \in 0..e] == IF i = 0 THEN 1 % scale ELSE (2 * f[i - 1]) % scale
    IN  f[e]

\* (a * b) % scale for a, b < scale <= 10^6, within 32 bits
MulMod(a, b, scale) == ((((a \div 1000) * b) % scale) * 1000 + (a % 1000) * b) % scale

\* the float that holds x / scale (x > 0) has a 53-bit significand m with
\* m = x * 2^e / scale rounded to nearest; the remainder of that division
\* tells on which side of x / scale the float lies: 0 exactly on it, under
\* half of scale below it, over half above it
FloatRemainder(x, scale) ==
    MulMod(x % scale, Pow2Mod(52 - BinaryExponent(x, scale), scale), scale)

\* Python round(value, ndigits) of the float nearest x / scale, to a multiple
\* of 10 units, x >= 0: the float's exact binary value is rounded, so a
\* decimal tie goes the way the float lies, and to the even multiple only
\* when the float holds the tie exactly
RoundFloat(x, scale) ==
    LET q == x \div 10
        r == x % 10
    IN  IF r < 5 THEN 10 * q
        ELSE IF r > 5 THEN 10 * (q + 1)
        ELSE LET m == FloatRemainder(x, scale)
             IN  IF m = 0 THEN (IF q % 2 = 0 THEN 10 * q ELSE 10 * (q + 1))
                 ELSE IF 2 * m < scale THEN 10 * q ELSE 10 * (q + 1)

PyRound(x, scale) ==
    LET sign == IF x < 0 THEN 0 - 1 ELSE 1
    IN  sign * RoundFloat(sign * x, scale)

\* ------------------------------------------------- float arithmetic
\* integers beyond 32 bits: sequences of base-1024 digits, lowest first, with
\* no leading zero digit (zero is the empty sequence)
BigTrim(a) ==
    IF \A i \in 1..Len(a) : a[i] = 0 THEN <<>>
    ELSE SubSeq(a, 1, CHOOSE i \in 1..Len(a) :
                          a[i] # 0 /\ \A j \in (i + 1)..Len(a) : a[j] = 0)

BigDigit(a, i) == IF i >= 1 /\ i <= Len(a) THEN a[i] ELSE 0

\* 0 <= x < 2^31
BigFromInt(x) == BigTrim([i \in 1..4 |-> (x \div 1024^(i - 1)) % 1024])

BigAdd(a, b) ==
    LET n == Max2(Len(a), Len(b)) + 1
        c[i \in 0..n] ==
            IF i = 0 THEN 0 ELSE (BigDigit(a, i) + BigDigit(b, i) + c[i - 1]) \div 1024
    IN  BigTrim([i \in 1..n |-> (BigDigit(a, i) + BigDigit(b, i) + c[i - 1]) % 1024])

\* a - b for a >= b
BigSub(a, b) ==
    LET n == Len(a)
        br[i \in 0..n] ==
            IF i = 0 THEN 0
            ELSE IF BigDigit(a, i) - BigDigit(b, i) - br[i - 1] < 0 THEN 1 ELSE 0
    IN  BigTrim([i \in 1..n |->
                    (BigDigit(a, i) - BigDigit(b, i) - br[i - 1] + 1024) % 1024])

\* -1, 0, 1 as a < b, a = b, a > b
BigCmp(a, b) ==
    IF Len(a) # Len(b) THEN (IF Len(a) < Len(b) THEN 0 - 1 ELSE 1)
    ELSE IF a = b THEN 0
    ELSE LET i == CHOOSE i \in 1..Len(a) :
                      a[i] # b[i] /\ \A j \in (i + 1)..Len(a) : a[j] = b[j]
         IN  IF a[i] < b[i] THEN 0 - 1 ELSE 1

\* a * k for 0 <= k <= 2^20
BigMulSmall(a, k) ==
    LET n == Len(a) + 2
        c[i \in 0..n] == IF i = 0 THEN 0 ELSE (BigDigit(a, i) * k + c[i - 1]) \div 1024
    IN  BigTrim([i \in 1..n |-> (BigDigit(a, i) * k + c[i - 1]) % 1024])

BigShlDigits(a, d) == IF a = <<>> THEN <<>> ELSE [i \in 1..d |-> 0] \o a

\* a * 2^k
BigShl(a, k) == BigShlDigits(BigMulSmall(a, 2^(k % 10)), k \div 10)

BigMul(a, b) ==
    LET s[j \in 0..Len(b)] ==
            IF j = 0 THEN <<>>
            ELSE BigAdd(s[j - 1], BigShlDigits(BigMulSmall(a, b[j]), j - 1))
    IN  s[Len(b)]

\* quotient and remainder of a by d, 0 < d <= 2^20
BigDivSmall(a, d) ==
    LET n == Len(a)
        r[j \in 0..n] == IF j = 0 THEN 0 ELSE (r[j - 1] * 1024 + a[n - j + 1]) % d
    IN  [q |-> BigTrim([i \in 1..n |-> (r[n - i] * 1024 + a[i]) \div d]), r |-> r[n]]

\* floor(a / 2^k)
BigShr(a, k) ==
    IF k \div 10 >= Len(a) THEN <<>>
    ELSE BigDivSmall(SubSeq(a, k \div 10 + 1, Len(a)), 2^(k % 10)).q

\* bit i of a, bit 0 the lowest
BigBit(a, i) == (BigDigit(a, i \div 10 + 1) \div 2^(i % 10)) % 2

\* the k lowest bits of a are all 0
BigLowZero(a, k) ==
    /\ \A i \in 1..(k \div 10) : BigDigit(a, i) = 0
    /\ BigDigit(a, k \div 10 + 1) % 2^(k % 10) = 0

\* number of bits of a
BigBitLen(a) ==
    IF a = <<>> THEN 0
    ELSE 10 * (Len(a) - 1)
         + (CHOOSE k \in 1..10 : 2^(k - 1) <= a[Len(a)] /\ a[Len(a)] < 2^k)

\* an IEEE double is neg, m, e: the value (-1)^neg * m * 2^e with m of exactly
\* 53 bits, or m zero
FloatZero == [neg |-> FALSE, m |-> <<>>, e |-> 0]

\* a significand that rounding up carried to 54 bits is 2^53: one bit is dropped
Renormalize(neg, m, e) ==
    IF BigBitLen(m) = 54 THEN [neg |-> neg, m |-> BigShr(m, 1), e |-> e + 1]
    ELSE [neg |-> neg, m |-> m, e |-> e]

\* N, of 53 + d bits, cut to 53 bits: up when the bits cut are more than half
\* of the last bit kept, or half of it and the last bit kept is odd
RoundBits(neg, N, e, sticky, d) ==
    IF d <= 0 THEN [neg |-> neg, m |-> BigShl(N, 0 - d), e |-> e + d]
    ELSE Renormalize(neg,
                     BigAdd(BigShr(N, d),
                            IF /\ BigBit(N, d - 1) = 1
                               /\ sticky \/ ~BigLowZero(N, d - 1) \/ BigBit(N, d) = 1
                            THEN <<1>> ELSE <<>>),
                     e + d)

\* the double nearest (-1)^neg * (N + f) * 2^e, ties to the even significand;
\* sticky tells that the fraction 0 <= f < 1 is not zero
RoundToDouble(neg, N, e, sticky) ==
    IF N = <<>> THEN FloatZero ELSE RoundBits(neg, N, e, sticky, BigBitLen(N) - 53)

\* RoundToDouble of a quotient q with remainder r
RoundQuotient(neg, dv, e) == RoundToDouble(neg, dv.q, e, dv.r # 0)

\* the double a decimal literal x / scale is read as, scale <= 10^6
FloatOf(x, scale) ==
    RoundQuotient(x < 0,
                  BigDivSmall(BigShl(BigFromInt(IF x < 0 THEN 0 - x ELSE x), 75), scale),
                  0 - 75)

FloatNeg(a) == [a EXCEPT !.neg = (a.m # <<>> /\ ~a.neg)]

\* the sum of (-1)^an * am and (-1)^bn * bm as sign and magnitude; c compares
\* am with bm
SignedSum(an, am, bn, bm, c) ==
    IF an = bn THEN [neg |-> an, N |-> BigAdd(am, bm)]
    ELSE IF c = 0 THEN [neg |-> FALSE, N |-> <<>>]
    ELSE IF c > 0 THEN [neg |-> an, N |-> BigSub(am, bm)]
    ELSE [neg |-> bn, N |-> BigSub(bm, am)]

RoundSum(sum, e) == RoundToDouble(sum.neg, sum.N, e, FALSE)

\* a + b of significands brought to the common exponent e
AddAligned(an, am, bn, bm, e) == RoundSum(SignedSum(an, am, bn, bm, BigCmp(am, bm)), e)

AddAt(a, b, e) == AddAligned(a.neg, BigShl(a.m, a.e - e), b.neg, BigShl(b.m, b.e - e), e)

\* a + b
FloatAdd(a, b) ==
    IF a.m = <<>> THEN b
    ELSE IF b.m = <<>> THEN a
    ELSE AddAt(a, b, Min2(a.e, b.e))

\* a - b
FloatSub(a, b) == FloatAdd(a, FloatNeg(b))

\* a * b
FloatMul(a, b) ==
    IF a.m = <<>> \/ b.m = <<>> THEN FloatZero
    ELSE RoundToDouble(a.neg # b.neg, BigMul(a.m, b.m), a.e + b.e, FALSE)

\* the digits n + 1, n, n - 1 of a as one number
TopDigits(a, n) ==
    (BigDigit(a, n + 1) * 1024 + BigDigit(a, n)) * 1024 + BigDigit(a, n - 1)

\* floor(R / D) for R < 1024 * D and D of two digits or more, the highest at
\* least 4: the quotient est of the leading digits is at most 1 off
NearestDigit(R, D, est) ==
    CHOOSE k \in Max2(0, est - 1)..Min2(1023, est + 1) :
        /\ BigCmp(BigMulSmall(D, k), R) <= 0
        /\ BigCmp(BigMulSmall(D, k + 1), R) > 0

QuotientDigit(R, D) == NearestDigit(R, D, TopDigits(R, Len(D)) \div TopDigits(D, Len(D)))

\* one step of the long division by D: k, the next base-1024 digit of the
\* quotient q, and the remainder shifted for the step after
DivStep(R, D, q, k) ==
    [R |-> BigShlDigits(BigSub(R, BigMulSmall(D, k)), 1), q |-> BigTrim(<<k>> \o q)]

\* q, floor(N * 1024^(n - 1) / D) for N < 1024 * D, and r, zero exactly when
\* nothing is left of N (the number of digits of the remainder)
LongDivision(N, D, n) ==
    LET st[i \in 0..n] ==
            IF i = 0 THEN [R |-> N, q |-> <<>>]
            ELSE CHOOSE r \in {DivStep(p.R, D, p.q, QuotientDigit(p.R, D)) :
                               p \in {st[i - 1]}} : TRUE
    IN  CHOOSE r \in {[q |-> p.q, r |-> Len(p.R)] : p \in {st[n]}} : TRUE

\* a / b, b not zero: 60 or 61 bits of the quotient, then rounded
FloatDiv(a, b) ==
    IF a.m = <<>> THEN FloatZero
    ELSE RoundQuotient(a.neg # b.neg, LongDivision(a.m, b.m, 7), a.e - b.e - 60)

NotPositive(a) == a.m = <<>> \/ a.neg

\* a <= b
FloatLe(a, b) == NotPositive(FloatSub(a, b))

\* round(degrees, 5) on micro-degrees
RoundTo10(x) == PyRound(x, 1000000)

\* round(safety_score, 3) on units of 1e-4
RoundScore(x) == PyRound(x, 10000)

\* round(station_aqi, 1) on units of 1e-2
RoundAqi(x) == PyRound(x, 100)

\* str.lower() and str.strip() on the strings the model uses
Lower(s) ==
    CASE s = "Forbidden" -> "forbidden"
      [] s = " CAUTION " -> " caution "
      [] s = "Safe" -> "safe"
      [] s = "High Risk" -> "high risk"
      [] s = "HIGH RISK" -> "high risk"
      [] s = "Moderate Risk" -> "moderate risk"
      [] s = "Unsafe" -> "unsafe"
      [] s = "Unknown" -> "unknown"
      [] s = "PS ALIPUR " -> "ps alipur "
      [] s = "NARELA" -> "narela"
      [] s = "Alipur" -> "alipur"
      [] s = "ALIPUR" -> "alipur"
      [] s = "Rohini" -> "rohini"
      [] s = " Alipur " -> " alipur "
      [] OTHER -> s

Strip(s) ==
    CASE s = " caution " -> "caution"
      [] s = "ps alipur " -> "ps alipur"
      [] s = " Alipur " -> "Alipur"
      [] s = " alipur " -> "alipur"
      [] OTHER -> s

\* ------------------------------------------------------------ route.py
\* SafeRouteRequest.normalize_risk_levels
RECURSIVE LowerStripNonEmpty(_)
LowerStripNonEmpty(value) ==
    IF value = <<>> THEN <<>>
    ELSE IF Head(value) = "" THEN LowerStripNonEmpty(Tail(value))
    ELSE <<Strip(Lower(Head(value)))>> \o LowerStripNonEmpty(Tail(value))

\* variant: an empty list is kept empty
normalize_risk_levels_KeepEmpty(value) == LowerStripNonEmpty(value)

normalize_risk_levels(value) ==
    IF value = <<>> THEN <<"forbidden">> ELSE LowerStripNonEmpty(value)

\* variant: the point is read as <<lng, lat>>
EdgeToggles_SwappedPoint(point, p1, p2) ==
    LET lat == point[2]
        lng == point[1]
        dlat == p2[2] - p1[2]
        num == (lat - p1[2]) * (p2[1] - p1[1])
    IN  /\ lat > Min2(p1[2], p2[2])
        /\ lat <= Max2(p1[2], p2[2])
        /\ lng <= Max2(p1[1], p2[1])
        /\ \/ p1[1] = p2[1]
           \/ /\ dlat > 0
              /\ (lng - p1[1]) * dlat <= num
           \/ /\ dlat < 0
              /\ (lng - p1[1]) * dlat >= num

\* degrees as the program holds them: the double of a micro-degree count
Degrees(x) == FloatOf(x, 1000000)

\* lng <= xinters with xinters = (lat - p1_lat) * (p2_lng - p1_lng) /
\* (p2_lat - p1_lat) + p1_lng, every operation rounded to a double
AtOrLeftOfXInters(lat, lng, p1_lng, p1_lat, p2_lng, p2_lat) ==
    FloatLe(Degrees(lng),
            FloatAdd(FloatDiv(FloatMul(FloatSub(Degrees(lat), Degrees(p1_lat)),
                                       FloatSub(Degrees(p2_lng), Degrees(p1_lng))),
                              FloatSub(Degrees(p2_lat), Degrees(p1_lat))),
                     Degrees(p1_lng)))

\* the spans for which the exact quotient decides the comparison of doubles
Near(d) == d >= 0 - 32767 /\ d <= 32767

\* sign of lng - ((lat - p1_lat) * (p2_lng - p1_lng) / (p2_lat - p1_lat) + p1_lng)
\* in exact arithmetic, for spans Near zero
ExactSide(dlng, dlat, num) ==
    IF (dlng * dlat < num) = (dlat > 0) THEN 0 - 1 ELSE 1

\* One edge of the ray cast: does the edge p1 -> p2 toggle "inside"?
\* point is <<lat, lng>>, vertices are <<lng, lat>>.  With d the latitude
\* span of the edge in micro-degrees, a point off the line through a short
\* edge is at least 1/d micro-degrees from xinters and the rounding of the
\* doubles moves xinters by less than 0.004/d, so there the exact side is the
\* answer; a point on the line, or a long edge, is decided by the doubles
\* themselves.
EdgeToggles(point, p1, p2) ==
    LET lat == point[1]
        lng == point[2]
        dlat == p2[2] - p1[2]
        num == (lat - p1[2]) * (p2[1] - p1[1])
    IN  /\ lat > Min2(p1[2], p2[2])
        /\ lat <= Max2(p1[2], p2[2])
        /\ lng <= Max2(p1[1], p2[1])
        /\ \/ p1[1] = p2[1]
           \/ IF /\ Near(dlat) /\ Near(p2[1] - p1[1]) /\ Near(lng - p1[1])
                 /\ (lng - p1[1]) * dlat # num
              THEN ExactSide(lng - p1[1], dlat, num) < 0
              ELSE AtOrLeftOfXInters(lat, lng, p1[1], p1[2], p2[1], p2[2])

RECURSIVE RayCast(_, _, _, _)
RayCast(point, polygon, i, inside) ==
    LET n == Len(polygon)
    IN  IF i > n THEN inside
        ELSE LET p1 == polygon[((i - 1) % n) + 1]
                 p2 == polygon[(i % n) + 1]
             IN  RayCast(point, polygon, i + 1,
                         IF EdgeToggles(point, p1, p2) THEN ~inside ELSE inside)

\* variant: the loop starts one edge late
point_in_polygon_SkipFirstEdge(point, polygon) == RayCast(point, polygon, 2, FALSE)

\* polygon[0] on an empty ring raises IndexError
point_in_polygon_raises(polygon) == Len(polygon) = 0

point_in_polygon(point, polygon) == RayCast(point, polygon, 1, FALSE)

\* ------------------------------------------------------ routing_service.py
Lons(coords) == [i \in 1..Len(coords) |-> coords[i][1]]
Lats(coords) == [i \in 1..Len(coords) |-> coords[i][2]]

\* the returned list of five corners, lines 104-110, from the four rounded
\* bounds
BboxCorners(min_lng, min_lat, max_lng, max_lat) ==
    << <<min_lng, min_lat>>,
       <<max_lng, min_lat>>,
       <<max_lng, max_lat>>,
       <<min_lng, max_lat>>,
       <<min_lng, min_lat>> >>

\* None (NoneRing) for an empty ring, else the 5-point closed bounding box
_bisect_bbox(coords) ==
    IF Len(coords) = 0 THEN NoneRing
    ELSE BboxCorners(RoundTo10(SeqMin(Lons(coords))), RoundTo10(SeqMin(Lats(coords))),
                     RoundTo10(SeqMax(Lons(coords))), RoundTo10(SeqMax(Lats(coords))))

\* (props.get("risk_level") or "").lower().strip()
FeatureRisk(feature) ==
    IF feature.properties.risk_level = None THEN ""
    ELSE Strip(Lower(feature.properties.risk_level))

LowerAll(levels) == {Lower(levels[i]) : i \in 1..Len(levels)}

\* the bounding box of one outer ring as a one-ring polygon, when it is kept
KeptBbox(bbox) ==
    IF bbox # NoneRing /\ Len(bbox) >= 4 /\ bbox[1] = bbox[Len(bbox)]
    THEN << <<bbox>> >>
    ELSE <<>>

BboxPolygons(ring) == KeptBbox(_bisect_bbox(ring))

\* variant: a sub-polygon's box is put in front of the list
RECURSIVE MultiPolygonRings_Prepend(_, _, _)
MultiPolygonRings_Prepend(coords, polygon_rings, limit) ==
    IF coords = <<>> \/ Len(polygon_rings) >= limit THEN polygon_rings
    ELSE MultiPolygonRings_Prepend(Tail(coords),
                                   BboxPolygons(Head(coords)[1]) \o polygon_rings,
                                   limit)

\* variant: the inner loop does not look at the limit
RECURSIVE MultiPolygonRings_NoLimit(_, _, _)
MultiPolygonRings_NoLimit(coords, polygon_rings, limit) ==
    IF coords = <<>> THEN polygon_rings
    ELSE MultiPolygonRings_NoLimit(Tail(coords),
                                   polygon_rings \o BboxPolygons(Head(coords)[1]),
                                   limit)

\* the inner loop over the sub-polygons of a MultiPolygon zone
RECURSIVE MultiPolygonRings(_, _, _)
MultiPolygonRings(coords, polygon_rings, limit) ==
    IF coords = <<>> \/ Len(polygon_rings) >= limit THEN polygon_rings
    ELSE MultiPolygonRings(Tail(coords),
                           polygon_rings \o BboxPolygons(Head(coords)[1]),
                           limit)

RECURSIVE AvoidRings(_, _, _, _)
AvoidRings(features, avoid_risk_levels, polygon_rings, limit) ==
    IF features = <<>> \/ Len(polygon_rings) >= limit THEN polygon_rings
    ELSE LET feature == Head(features)
             geometry == feature.geometry
             rest == Tail(features)
         IN  IF FeatureRisk(feature) \notin LowerAll(avoid_risk_levels)
             THEN AvoidRings(rest, avoid_risk_levels, polygon_rings, limit)
             ELSE IF geometry.coordinates = <<>>
             THEN AvoidRings(rest, avoid_risk_levels, polygon_rings, limit)
             ELSE IF geometry.type = "Polygon"
             THEN AvoidRings(rest, avoid_risk_levels,
                             polygon_rings \o BboxPolygons(geometry.coordinates[1]),
                             limit)
             ELSE IF geometry.type = "MultiPolygon"
             THEN AvoidRings(rest, avoid_risk_levels,
                             MultiPolygonRings(geometry.coordinates, polygon_rings, limit),
                             limit)
             ELSE AvoidRings(rest, avoid_risk_levels, polygon_rings, limit)

\* None (NoneGeometry) when no polygon qualifies, else the MultiPolygon geometry
build_avoid_multipolygon(features, avoid_risk_levels, limit) ==
    LET polygon_rings == AvoidRings(features, avoid_risk_levels, <<>>, limit)
    IN  IF polygon_rings = <<>> THEN NoneGeometry
        ELSE [type |-> "MultiPolygon", coordinates |-> polygon_rings]

\* the avoid_polygons option of the payload: <<>> when no option is added
build_ors_payload(start, end, avoid_multipolygon) ==
    [coordinates |-> << <<start[2], start[1]>>, <<end[2], end[1]>> >>,
     avoid_polygons |->
        IF avoid_multipolygon = NoneGeometry THEN <<>>
        ELSE IF avoid_multipolygon.type # "MultiPolygon" THEN <<>>
        ELSE SelectSeq(avoid_multipolygon.coordinates, LAMBDA poly : Len(poly) > 0)]

\* ------------------------------------------------------------ route.py
\* the MultiPolygon branch: an exception in a sub-polygon abandons the zone
RECURSIVE AnySubPolygonContains(_, _)
AnySubPolygonContains(point, coords) ==
    IF coords = <<>> THEN FALSE
    ELSE IF Len(Head(coords)) = 0 THEN FALSE
    ELSE IF point_in_polygon_raises(Head(coords)[1]) THEN FALSE
    ELSE IF point_in_polygon(point, Head(coords)[1]) THEN TRUE
    ELSE AnySubPolygonContains(point, Tail(coords))

\* variant: only Polygon zones are tested
ZoneContains_PolygonOnly(point, geometry) ==
    /\ geometry.coordinates # <<>>
    /\ geometry.type = "Polygon"
    /\ ~point_in_polygon_raises(geometry.coordinates[1])
    /\ point_in_polygon(point, geometry.coordinates[1])

ZoneContains(point, geometry) ==
    IF geometry.coordinates = <<>> THEN FALSE
    ELSE IF geometry.type = "Polygon"
    THEN /\ ~point_in_polygon_raises(geometry.coordinates[1])
         /\ point_in_polygon(point, geometry.coordinates[1])
    ELSE IF geometry.type = "MultiPolygon"
    THEN AnySubPolygonContains(point, geometry.coordinates)
    ELSE FALSE

\* variant: zones of every risk level are tested
check_point_in_forbidden_zones_AnyLevel(point_coords, features, avoid_risk_levels) ==
    \E i \in 1..Len(features) : ZoneContains(point_coords, features[i].geometry)

check_point_in_forbidden_zones(point_coords, features, avoid_risk_levels) ==
    \E i \in 1..Len(features) :
        /\ FeatureRisk(features[i]) \in LowerAll(avoid_risk_levels)
        /\ ZoneContains(point_coords, features[i].geometry)

\* -------------------------------------------------- safety_area_service.py
\* "hint in normalized" for the lower-cased class names the model uses
SAFE_LABEL_HINTS == {"safe", "low risk", "allow", "green"}
DANGER_LABEL_HINTS == {"danger", "high", "forbidden", "severe"}

Contains(s, hint) ==
    \/ s = hint
    \/ s = "unsafe" /\ hint = "safe"
    \/ s = "high risk" /\ hint = "high"
    \/ s = "low risk area" /\ hint = "low risk"

HasHint(class_name, hints) == \E hint \in hints : Contains(Lower(class_name), hint)

\* index of the first class whose name has a hint, 0 when there is none
RECURSIVE FirstHintIdx(_, _, _)
FirstHintIdx(class_order, hints, idx) ==
    IF idx > Len(class_order) THEN 0
    ELSE IF HasHint(class_order[idx], hints) THEN idx
    ELSE FirstHintIdx(class_order, hints, idx + 1)

\* variant: the danger class is looked for before the safe class
_extract_safe_probability_DangerFirst(prob_vector, class_order) ==
    LET safe_idx == FirstHintIdx(class_order, SAFE_LABEL_HINTS, 1)
        danger_idx == FirstHintIdx(class_order, DANGER_LABEL_HINTS, 1)
    IN  IF Len(prob_vector) = 0 THEN DefaultScore
        ELSE IF danger_idx # 0
        THEN LET danger_prob == IF danger_idx <= Len(prob_vector)
                                THEN prob_vector[danger_idx] ELSE DefaultScore
             IN  Max2(0, Min2(10000, 10000 - danger_prob))
        ELSE IF safe_idx # 0 /\ safe_idx <= Len(prob_vector) THEN prob_vector[safe_idx]
        ELSE prob_vector[Len(prob_vector)]

\* lines 64-87, for a vector that is not None
_extract_safe_probability(prob_vector, class_order) ==
    LET safe_idx == FirstHintIdx(class_order, SAFE_LABEL_HINTS, 1)
        danger_idx == FirstHintIdx(class_order, DANGER_LABEL_HINTS, 1)
    IN  IF Len(prob_vector) = 0 THEN DefaultScore
        ELSE IF safe_idx # 0 /\ safe_idx <= Len(prob_vector) THEN prob_vector[safe_idx]
        ELSE IF danger_idx # 0
        THEN LET danger_prob == IF danger_idx <= Len(prob_vector)
                                THEN prob_vector[danger_idx] ELSE DefaultScore
             IN  Max2(0, Min2(10000, 10000 - danger_prob))
        ELSE prob_vector[Len(prob_vector)]

\* danger_prob of lines 80-83 when _extract_safe_probability returns
\* 1.0 - danger_prob, Absent when it returns on another line
DangerProb(prob_vector, class_order) ==
    LET safe_idx == FirstHintIdx(class_order, SAFE_LABEL_HINTS, 1)
        danger_idx == FirstHintIdx(class_order, DANGER_LABEL_HINTS, 1)
    IN  IF Len(prob_vector) = 0 THEN Absent
        ELSE IF safe_idx # 0 /\ safe_idx <= Len(prob_vector) THEN Absent
        ELSE IF danger_idx = 0 THEN Absent
        ELSE IF danger_idx <= Len(prob_vector) THEN prob_vector[danger_idx]
        ELSE DefaultScore

\* -1, 0, 1 as the double f >= 0 is below, at, above u / 10000
DoubleCmpUnits(f, u) ==
    BigCmp(BigMulSmall(f.m, 10000), BigShl(BigFromInt(u), 0 - f.e))

\* the double 1.0 - danger_prob of line 84 (its clamp to [0, 1] leaves the
\* complement of a probability as it is)
Complement(danger_prob) == FloatSub(FloatOf(10000, 10000), FloatOf(danger_prob, 10000))

\* round(1.0 - danger_prob, 3) in score units: Python rounds the exact value
\* of the double, so when the decimal complement ends in 5 the side of it the
\* double lies on decides
RoundComplement(danger_prob) ==
    LET u == 10000 - danger_prob
        q == u \div 10
    IN  IF u % 10 < 5 THEN 10 * q
        ELSE IF u % 10 > 5 THEN 10 * (q + 1)
        ELSE LET c == DoubleCmpUnits(Complement(danger_prob), u)
             IN  IF c < 0 THEN 10 * q
                 ELSE IF c > 0 THEN 10 * (q + 1)
                 ELSE IF q % 2 = 0 THEN 10 * q ELSE 10 * (q + 1)

\* round(safety_score, 3), line 319: of a probability read from the vector, or
\* of the double 1.0 - danger_prob
RoundedScore(safety_score, danger_prob) ==
    IF danger_prob = Absent THEN RoundScore(safety_score)
    ELSE RoundComplement(danger_prob)

\* variant: the thresholds are exclusive
_classify_risk_level_Strict(safety_score, predicted_label) ==
    IF predicted_label = "High Risk" \/ Contains(Lower(predicted_label), "high")
    THEN "forbidden"
    ELSE IF safety_score > SafeThreshold THEN "safe"
    ELSE IF safety_score > CautionThreshold THEN "caution"
    ELSE "forbidden"

\* variant: only the exact label "High Risk" forces forbidden
_classify_risk_level_ExactLabel(safety_score, predicted_label) ==
    IF predicted_label = "High Risk"
    THEN "forbidden"
    ELSE IF safety_score >= SafeThreshold THEN "safe"
    ELSE IF safety_score >= CautionThreshold THEN "caution"
    ELSE "forbidden"

\* lines 90-111
_classify_risk_level(safety_score, predicted_label) ==
    IF predicted_label = "High Risk" \/ Contains(Lower(predicted_label), "high")
    THEN "forbidden"
    ELSE IF safety_score >= SafeThreshold THEN "safe"
    ELSE IF safety_score >= CautionThreshold THEN "caution"
    ELSE "forbidden"

\* The boundary file read once by _load_police_boundaries: two zones, a
\* triangle (Polygon) and two squares (MultiPolygon); vertices are <<lng, lat>>.
BOUNDARIES ==
    << [POL_STN_NM |-> "PS ALIPUR ",
        geometry |-> [type |-> "Polygon",
                      coordinates |-> << << <<0, 0>>, <<40, 0>>, <<0, 40>>, <<0, 0>> >> >>]],
       [POL_STN_NM |-> "NARELA",
        geometry |-> [type |-> "MultiPolygon",
                      coordinates |->
                        << << << <<60, 0>>, <<80, 0>>, <<80, 20>>, <<60, 20>>, <<60, 0>> >> >>,
                           << << <<60, 40>>, <<80, 40>>, <<80, 60>>, <<60, 60>>, <<60, 40>> >> >> >>]] >>

NumZones == Len(BOUNDARIES)

\* props.get("POL_STN_NM", "").lower().strip()
StationName(idx) == Strip(Lower(BOUNDARIES[idx].POL_STN_NM))

\* aqi_data.get(key, {}).get("aqi", 150.0)
AqiOf(aqi_data, key) ==
    IF key # None /\ key \in DOMAIN aqi_data THEN aqi_data[key] ELSE DefaultAqi

\* station_name.replace("ps ", "").replace(".", "").strip(), lines 245-246
NormalizedName(station_name) ==
    CASE station_name = "ps alipur" -> "alipur"
      [] OTHER -> station_name

\* "a in b" for the names the boundaries and the station keys use
IsSubstring(a, b) == a = b \/ (a = "alipur" /\ b = "ps alipur")

\* lines 249-259: the first station key that contains the normalized name or
\* is contained in it, else the first two words of the normalized name (all
\* names here have one word), else None
MatchedStation(idx, ps_names) ==
    LET normalized_name == NormalizedName(StationName(idx))
        hits == {j \in 1..Len(ps_names) :
                    \/ IsSubstring(ps_names[j], normalized_name)
                    \/ IsSubstring(normalized_name, ps_names[j])}
    IN  IF hits # {} THEN ps_names[CHOOSE j \in hits : \A h \in hits : j <= h]
        ELSE IF normalized_name # "" THEN normalized_name
        ELSE None

\* lines 261-264: the aqi placed in the feature row of zone idx
FeatureRowAqi(idx, aqi_data, ps_names) ==
    LET matched_station == MatchedStation(idx, ps_names)
    IN  IF matched_station # None THEN AqiOf(aqi_data, matched_station) ELSE DefaultAqi

RECURSIVE SortedInsert(_, _)
SortedInsert(s, x) ==
    IF s = <<>> THEN <<x>>
    ELSE IF x <= Head(s) THEN <<x>> \o s
    ELSE <<Head(s)>> \o SortedInsert(Tail(s), x)

RECURSIVE SortedValues(_, _)
SortedValues(f, keys) ==
    IF keys = {} THEN <<>>
    ELSE LET k == CHOOSE k \in keys : TRUE
         IN  SortedInsert(SortedValues(f, keys \ {k}), f[k])

\* float(np.median(aqi_values)) if aqi_values else 150.0, in HALF AQI units
\* (0.005 each, so 150.0 is 30000): the median of an even number of readings
\* is the mean of the two middle ones, which falls between two AQI units
\* when their sum is odd
MedianAqi(aqi_data) ==
    LET v == SortedValues(aqi_data, DOMAIN aqi_data)
        n == Len(v)
    IN  IF n = 0 THEN 2 * DefaultAqi
        ELSE IF n % 2 = 1 THEN 2 * v[(n + 1) \div 2]
        ELSE v[n \div 2] + v[n \div 2 + 1]

\* properties of a boundary feature no pass has annotated yet
UnannotatedProps ==
    [safety_score |-> Absent, risk_level |-> None, predicted_label |-> None,
     station_id |-> None, matched_station |-> None, aqi |-> Absent]

\* the format {idx:03d}: decimal digits, zero-padded to at least three
ZeroPad3(idx) ==
    IF idx < 10 THEN "00" \o ToString(idx)
    ELSE IF idx < 100 THEN "0" \o ToString(idx)
    ELSE ToString(idx)

\* variant: a zone with no prediction is marked caution
AnnotateZone_UnscoredCaution(props, idx, predictions, aqi_data, class_order) ==
    IF idx <= Len(predictions)
    THEN LET predicted_label == predictions[idx].label
             safety_score == _extract_safe_probability(predictions[idx].probs, class_order)
             matched_station_name == StationName(idx)
             station_aqi == IF matched_station_name # ""
                            THEN AqiOf(aqi_data, matched_station_name) ELSE DefaultAqi
         IN  [props EXCEPT !.safety_score =
                               RoundedScore(safety_score,
                                            DangerProb(predictions[idx].probs, class_order)),
                           !.risk_level = _classify_risk_level(safety_score, predicted_label),
                           !.predicted_label = predicted_label,
                           !.station_id = "ps_" \o ZeroPad3(idx - 1),
                           !.matched_station = matched_station_name,
                           !.aqi = RoundAqi(station_aqi)]
    ELSE [props EXCEPT !.safety_score = DefaultScore,
                       !.risk_level = "caution",
                       !.predicted_label = "Unknown",
                       !.station_id = "ps_" \o ZeroPad3(idx - 1)]

\* props.update(...) of one zone, lines 300-344; idx counts from 1
AnnotateZone(props, idx, predictions, aqi_data, class_order) ==
    IF idx <= Len(predictions)
    THEN LET predicted_label == predictions[idx].label
             safety_score == _extract_safe_probability(predictions[idx].probs, class_order)
             matched_station_name == StationName(idx)
             station_aqi == IF matched_station_name # ""
                            THEN AqiOf(aqi_data, matched_station_name) ELSE DefaultAqi
         IN  [props EXCEPT !.safety_score =
                               RoundedScore(safety_score,
                                            DangerProb(predictions[idx].probs, class_order)),
                           !.risk_level = _classify_risk_level(safety_score, predicted_label),
                           !.predicted_label = predicted_label,
                           !.station_id = "ps_" \o ZeroPad3(idx - 1),
                           !.matched_station = matched_station_name,
                           !.aqi = RoundAqi(station_aqi)]
    ELSE [props EXCEPT !.safety_score = DefaultScore,
                       !.risk_level = "forbidden",
                       !.predicted_label = "Unknown",
                       !.station_id = "ps_" \o ZeroPad3(idx - 1)]

\* the annotation loop: every boundary feature's properties are updated in place
AnnotateAll(heap, predictions, aqi_data, class_order) ==
    [idx \in 1..NumZones |->
        AnnotateZone(heap[idx], idx, predictions, aqi_data, class_order)]

\* ------------------------------------------------------------------ inputs
\* points are <<lat, lng>>; a start or end input is a [lat, lng] pair
\* (kind "pair") or a location name to geocode (kind "name", value unused)
PointInTriangle == <<10, 10>>
PointInBboxOnly == <<30, 30>>
PointInSquare == <<50, 70>>
PointOutsideA == <<90, 10>>
PointOutsideB == <<90, 90>>

StartInputs ==
    {[kind |-> "pair", value |-> PointOutsideA],
     [kind |-> "pair", value |-> PointInTriangle],
     [kind |-> "pair", value |-> PointInBboxOnly],
     [kind |-> "pair", value |-> <<91000000, 10>>],
     [kind |-> "name", value |-> <<0, 0>>]}

EndInputs ==
    {[kind |-> "pair", value |-> PointOutsideA],
     [kind |-> "pair", value |-> PointOutsideB],
     [kind |-> "pair", value |-> PointInSquare]}

LevelInputs == {<<"forbidden">>, <<"Forbidden", " CAUTION ">>, <<>>}

\* what nominatim answers for a location name: a point or an error status
GeocodeOutcomes ==
    {[ok |-> TRUE, point |-> PointOutsideA, status |-> 200],
     [ok |-> FALSE, point |-> <<0, 0>>, status |-> 404],
     [ok |-> FALSE, point |-> <<0, 0>>, status |-> 503]}

\* what the directions provider answers: 200, or the status call_ors raises
\* (504 timeout, 503 request error, 413, any other status >= 400)
OrsOutcomes == {200, 400, 401, 404, 413, 500, 503, 504}

\* what fetch_aqi_from_waqi returns: a mapping station key -> aqi, or raises
AqiOutcomes ==
    {[ok |-> TRUE, data |-> <<>>],
     [ok |-> TRUE, data |-> [narela |-> 8004]],
     [ok |-> FALSE, data |-> <<>>]}

PredSafe == [label |-> "Safe", probs |-> <<500, 1500, 8000>>]
PredHigh == [label |-> "High Risk", probs |-> <<5000, 1000, 4000>>]
PredModerate == [label |-> "Moderate Risk", probs |-> <<2000, 1004, 6996>>]

\* what predict_safety returns: k <= NumZones predictions, or it raises
PredictOutcomes ==
    {[ok |-> FALSE, preds |-> <<>>],
     [ok |-> TRUE, preds |-> <<PredHigh, PredSafe>>],
     [ok |-> TRUE, preds |-> <<PredSafe, PredHigh>>],
     [ok |-> TRUE, preds |-> <<PredModerate>>]}

\* the model artifacts and settings loaded once per process
Environments ==
    {[model_loaded |-> TRUE, ors_api_key |-> TRUE, boundary_count |-> NumZones,
      class_order |-> <<"High Risk", "Moderate Risk", "Safe">>],
     [model_loaded |-> FALSE, ors_api_key |-> TRUE, boundary_count |-> NumZones,
      class_order |-> <<"High Risk", "Moderate Risk", "Safe">>],
     [model_loaded |-> TRUE, ors_api_key |-> FALSE, boundary_count |-> NumZones,
      class_order |-> <<"High Risk", "Moderate Risk", "Safe">>]}

\* the boundary file holds BOUNDARIES, or a FeatureCollection with no features
BoundaryEnvironments ==
    {[model_loaded |-> TRUE, ors_api_key |-> TRUE, boundary_count |-> n,
      class_order |-> <<"High Risk", "Moderate Risk", "Safe">>] : n \in {0, NumZones}}

\* the calls of get_safety_polygons: safe_route passes no argument,
\* safety_areas passes (month, day, use_current_conditions) positionally
RouteCall == [n |-> 0, month |-> Absent, day |-> Absent, use_current_conditions |-> TRUE]
AreasCalls ==
    {[n |-> 3, month |-> Absent, day |-> Absent, use_current_conditions |-> TRUE],
     [n |-> 3, month |-> 1, day |-> Absent, use_current_conditions |-> FALSE]}

\* ------------------------------------------------------------------- state
VARIABLES
    now,      \* datetime.now(), minutes
    cache,    \* _timed_cache: cache key -> [data, time, returned]
    zones,    \* properties of the features of the lru-cached boundary dict
    passes,   \* number of producer invocations so far; names the datasets
    env,      \* model artifacts and settings
    task,     \* per task: position and locals of its coroutine
    fn,       \* a direct call of one function: its name, arguments and result
    gemini    \* position and locals of the coroutine fetch_aqi_from_gemini

vars == <<now, cache, zones, passes, env, task, fn, gemini>>

\* repr() of the arguments, as the f-string of the cache key prints them
ReprInt(x) == IF x = Absent THEN "None" ELSE IF x = 1 THEN "1" ELSE "int"
ReprBool(b) == IF b THEN "True" ELSE "False"

\* f"{func.__name__}:{args}:{kwargs}"
cache_key(call) ==
    <<"get_safety_polygons",
      IF call.n = 0 THEN <<>>
      ELSE <<ReprInt(call.month), ReprInt(call.day), ReprBool(call.use_current_conditions)>>,
      <<>> >>

\* variant: an entry exactly ttl old is still served
IsFresh_Inclusive(cached_time, t) == t - cached_time <= CacheTtl

\* datetime.now() - cached_time < _cache_ttl
IsFresh(cached_time, t) == t - cached_time < CacheTtl

CacheHit(key) == key \in DOMAIN cache /\ IsFresh(cache[key].time, now)

\* variant: the entry is stamped with the time the producer started
CacheStore_GeneratedAt(c, key, data, heap) ==
    [k \in DOMAIN c \cup {key} |->
        IF k = key
        THEN [data |-> data, time |-> data.metadata.generated_at,
              returned |-> [i \in 1..Len(data.features) |-> heap[data.features[i]]]]
        ELSE c[k]]

\* variant: a caller that finds a fresh entry at store time keeps it
CacheStore_FirstWins(c, key, data, heap) ==
    IF key \in DOMAIN c /\ IsFresh(c[key].time, now)
    THEN c
    ELSE [k \in DOMAIN c \cup {key} |->
            IF k = key
            THEN [data |-> data, time |-> now,
                  returned |-> [i \in 1..Len(data.features) |-> heap[data.features[i]]]]
            ELSE c[k]]

\* _timed_cache[cache_key] = (result, datetime.now())
CacheStore(c, key, data, heap) ==
    [k \in DOMAIN c \cup {key} |->
        IF k = key
        THEN [data |-> data, time |-> now, returned |-> [i \in 1..Len(data.features) |-> heap[data.features[i]]]]
        ELSE c[k]]

\* now.month and now.day; the clock starts on the first minute of a January
MonthOf(t) == 1 + ((t \div 44640) % 12)
DayOf(t) == 1 + ((t \div 1440) % 31)

\* the FeatureCollection a dataset is, read through its feature references
FeaturesOf(data, heap) ==
    [i \in 1..Len(data.features) |->
        [properties |-> heap[data.features[i]],
         geometry |-> BOUNDARIES[data.features[i]].geometry]]

PropsOf(data, heap) == [i \in 1..Len(data.features) |-> heap[data.features[i]]]

\* the dict get_safety_polygons returns, lines 346-356
NewDataset(id, gen_at, call, aqi_data) ==
    [id |-> id,
     features |-> [i \in 1..env.boundary_count |-> i],
     metadata |-> [generated_at |-> gen_at,
                   month |-> IF call.month = Absent THEN MonthOf(gen_at) ELSE call.month,
                   day |-> IF call.day = Absent THEN DayOf(gen_at) ELSE call.day,
                   total_features |-> env.boundary_count,
                   median_aqi |-> MedianAqi(aqi_data)]]

NoDataset ==
    [id |-> 0, features |-> <<>>,
     metadata |-> [generated_at |-> Absent, month |-> Absent, day |-> Absent,
                   total_features |-> Absent, median_aqi |-> Absent]]

NoMetadata == [avoid_risk_levels |-> <<>>, avoid_polygons_count |-> Absent, fallback_used |-> FALSE]
NoResponse == [kind |-> "none", status |-> Absent, metadata |-> NoMetadata, data |-> NoDataset]
NoRead ==
    [made |-> FALSE, key |-> <<>>, at |-> Absent, had_entry |-> FALSE, entry_time |-> Absent,
     entry_id |-> 0, first |-> <<>>, passes_before |-> 0, invoked |-> 0, got |-> <<>>,
     stored_at |-> Absent]

IdleTask ==
    [pc |-> "idle", op |-> "none", call |-> RouteCall, gen_at |-> Absent,
     resolved |-> FALSE, start_coords |-> <<0, 0>>, end_coords |-> <<0, 0>>,
     avoid_risk_levels |-> <<>>, effective_avoid_levels |-> <<>>,
     seen_risk |-> <<>>, num_avoid_polygons |-> 0, ors_calls |-> <<>>, pass_id |-> 0,
     end_input |-> [kind |-> "pair", value |-> <<0, 0>>],
     response |-> NoResponse, read |-> NoRead]

\* no function is called directly
NoFn == [name |-> "none", args |-> <<>>, returned |-> FALSE, ret |-> <<>>]

\* fetch_aqi_from_gemini is not running
NoResp == [kind |-> "none", status |-> 0, json_ok |-> FALSE, body |-> <<>>]
NoGemini ==
    [pc |-> "idle", merged |-> <<>>, batches |-> <<>>, i |-> 0, attempt |-> 0,
     re_bound |-> FALSE, resp |-> NoResp, results |-> <<>>, requests |-> <<>>]

Init ==
    /\ now = 0
    /\ cache = <<>>
    /\ zones = [i \in 1..NumZones |-> UnannotatedProps]
    /\ passes = 0
    /\ env \in Environments
    /\ task = [t \in Tasks |-> IdleTask]
    /\ fn = NoFn
    /\ gemini = NoGemini

\* ------------------------------------------------------------ safe_route
\* raise HTTPException(status_code=status)
Raise(r, status) ==
    [r EXCEPT !.pc = "done",
              !.response = [kind |-> "error", status |-> status,
                            metadata |-> NoMetadata, data |-> NoDataset]]

\* return ors_response with its metadata
Respond(r, levels, count, fallback_used) ==
    [r EXCEPT !.pc = "done",
              !.response = [kind |-> "ok", status |-> 200,
                            metadata |-> [avoid_risk_levels |-> levels,
                                          avoid_polygons_count |-> count,
                                          fallback_used |-> fallback_used],
                            data |-> NoDataset]]

\* variant: the primary response reports the requested levels
PrimaryResponse_RequestedLevels(r) ==
    Respond(r, r.avoid_risk_levels, r.num_avoid_polygons, FALSE)

\* the metadata of a route found by the primary call, lines 167-173
PrimaryResponse(r) == Respond(r, r.effective_avoid_levels, r.num_avoid_polygons, FALSE)

\* variant: the fallback response reports what the primary attempt used
FallbackResponse_PrimaryLevels(r) ==
    Respond(r, r.effective_avoid_levels, r.num_avoid_polygons, TRUE)

\* the metadata of a route found by the fallback call, lines 155-162
FallbackResponse(r) == Respond(r, <<>>, 0, TRUE)

\* call_ors up to its HTTP request: a missing key raises 500 at once
CallOrs(r, payload, next_pc) ==
    LET logged == [r EXCEPT !.ors_calls =
                      Append(r.ors_calls, [avoid_count |-> Len(payload.avoid_polygons),
                                           avoid_polygons |-> payload.avoid_polygons,
                                           status |-> Absent])]
    IN  IF env.ors_api_key
        THEN [ok |-> TRUE, r |-> [logged EXCEPT !.pc = next_pc]]
        ELSE [ok |-> FALSE,
              r |-> [logged EXCEPT !.ors_calls[Len(logged.ors_calls)].status = 500]]

\* variant: 413 is not among the statuses that trigger the fallback
ShouldFallback_No413(num_avoid_polygons, status_code) ==
    num_avoid_polygons > 0 /\ status_code \in {400, 404, 504}

\* variant: every failed primary call with avoidance polygons is retried
ShouldFallback_AnyStatus(num_avoid_polygons, status_code) ==
    num_avoid_polygons > 0

\* the except branch of safe_route, lines 147-164
ShouldFallback(num_avoid_polygons, status_code) ==
    num_avoid_polygons > 0 /\ status_code \in FallbackStatuses

PrimaryFailed(r, status_code) ==
    IF ShouldFallback(r.num_avoid_polygons, status_code)
    THEN LET fallback_payload == build_ors_payload(r.start_coords, r.end_coords, NoneGeometry)
             second == CallOrs(r, fallback_payload, "call_ors_fallback")
         IN  IF second.ok THEN second.r ELSE Raise(second.r, 500)
    ELSE Raise(r, status_code)

\* lines 131-146: the count of avoided polygons, the payload, the primary call
PrimaryCall(r, safety_polygons, effective_avoid_levels, avoid_multipolygon) ==
    LET num_avoid_polygons ==
            IF avoid_multipolygon # NoneGeometry /\ avoid_multipolygon.coordinates # <<>>
            THEN Len(avoid_multipolygon.coordinates) ELSE 0
        ors_payload == build_ors_payload(r.start_coords, r.end_coords, avoid_multipolygon)
        locals == [r EXCEPT !.effective_avoid_levels = effective_avoid_levels,
                            !.num_avoid_polygons = num_avoid_polygons,
                            !.seen_risk = [i \in 1..Len(safety_polygons) |->
                                              FeatureRisk(safety_polygons[i])]]
        primary == CallOrs(locals, ors_payload, "call_ors")
    IN  IF primary.ok THEN primary.r
        ELSE PrimaryFailed(primary.r, 500)

\* lines 125-130: the avoid geometry of the effective levels, built from the
\* features avoid_from
RouteAvoid(r, safety_polygons, avoid_from, effective_avoid_levels) ==
    PrimaryCall(r, safety_polygons, effective_avoid_levels,
                build_avoid_multipolygon(avoid_from, effective_avoid_levels, AvoidLimit))

\* lines 115-123: no level is avoided when the start or the end lies in a zone
\* of the levels to avoid
EffectiveAvoidLevels(r, safety_polygons) ==
    IF \/ check_point_in_forbidden_zones(r.start_coords, safety_polygons,
                                         r.avoid_risk_levels)
       \/ check_point_in_forbidden_zones(r.end_coords, safety_polygons,
                                         r.avoid_risk_levels)
    THEN <<>>
    ELSE r.avoid_risk_levels

\* variant: a dataset with no features is not rejected
RoutePrepare_NoEmptyCheck(r, data, heap) ==
    RouteAvoid(r, FeaturesOf(data, heap), FeaturesOf(data, heap),
               EffectiveAvoidLevels(r, FeaturesOf(data, heap)))

\* variant: the geometry is built from the zones as they were before the
\* step, the containment check from the zones as the step leaves them
RoutePrepare_BuildFromEarlierZones(r, data, heap) ==
    IF Len(FeaturesOf(data, heap)) = 0 THEN Raise(r, 503)
    ELSE RouteAvoid(r, FeaturesOf(data, heap), FeaturesOf(data, zones),
                    EffectiveAvoidLevels(r, FeaturesOf(data, heap)))

\* safe_route from the dataset to the primary call, lines 110-146
RoutePrepare(r, data, heap) ==
    IF Len(FeaturesOf(data, heap)) = 0 THEN Raise(r, 503)
    ELSE RouteAvoid(r, FeaturesOf(data, heap), FeaturesOf(data, heap),
                    EffectiveAvoidLevels(r, FeaturesOf(data, heap)))

\* what the caller of get_safety_polygons does with the dataset it gets
AfterDataset(r, data, heap) ==
    LET got == [r EXCEPT !.read.got = PropsOf(data, heap)]
    IN  IF r.op = "safety_areas"
        THEN [got EXCEPT !.pc = "done",
                         !.response = [kind |-> "ok", status |-> 200,
                                       metadata |-> NoMetadata, data |-> data]]
        ELSE RoutePrepare(got, data, heap)

\* --------------------------------------------- timed_cache / get_safety_polygons
\* variant: a raise of the producer is stored as the entry of the key
Produce_StoreOnRaise(t, r, aqi_data, pred) ==
    IF env.boundary_count > 0 /\ ~pred.ok
    THEN /\ task' = [task EXCEPT ![t] = Raise(r, 500)]
         /\ cache' = [k \in DOMAIN cache \cup {cache_key(r.call)} |->
                        IF k = cache_key(r.call)
                        THEN [data |-> NoDataset, time |-> now, returned |-> <<>>]
                        ELSE cache[k]]
         /\ UNCHANGED zones
    ELSE LET heap == IF env.boundary_count = 0 THEN zones
                     ELSE AnnotateAll(zones, pred.preds, aqi_data, env.class_order)
             data == NewDataset(r.pass_id, r.gen_at, r.call, aqi_data)
         IN  /\ zones' = heap
             /\ cache' = CacheStore(cache, cache_key(r.call), data, heap)
             /\ task' = [task EXCEPT ![t] =
                            AfterDataset([r EXCEPT !.read.stored_at = now], data, heap)]

\* the producer from the classifier call to the return, then the wrapper's
\* store, lines 285-356 and 45-47; a raise leaves cache and features alone
Produce(t, r, aqi_data, pred) ==
    IF env.boundary_count > 0 /\ ~pred.ok
    THEN /\ task' = [task EXCEPT ![t] = Raise(r, 500)]
         /\ UNCHANGED <<cache, zones>>
    ELSE LET heap == IF env.boundary_count = 0 THEN zones
                     ELSE AnnotateAll(zones, pred.preds, aqi_data, env.class_order)
             data == NewDataset(r.pass_id, r.gen_at, r.call, aqi_data)
         IN  /\ zones' = heap
             /\ cache' = CacheStore(cache, cache_key(r.call), data, heap)
             /\ task' = [task EXCEPT ![t] =
                            AfterDataset([r EXCEPT !.read.stored_at = now], data, heap)]

\* wrapper(*args, **kwargs): lookup, then the producer up to its first await
Wrapper(t, r0) ==
    LET key == cache_key(r0.call)
        had == key \in DOMAIN cache
        r == [r0 EXCEPT !.read = [NoRead EXCEPT
                                     !.made = TRUE, !.key = key, !.at = now,
                                     !.had_entry = had,
                                     !.entry_time = IF had THEN cache[key].time ELSE Absent,
                                     !.entry_id = IF had THEN cache[key].data.id ELSE 0,
                                     !.first = IF had THEN cache[key].returned ELSE <<>>,
                                     !.passes_before = passes]]
    IN  IF CacheHit(key)
        THEN /\ task' = [task EXCEPT ![t] = AfterDataset(r, cache[key].data, zones)]
             /\ UNCHANGED <<cache, zones, passes>>
        ELSE /\ passes < MaxPasses
             /\ passes' = passes + 1
             /\ LET p == [r EXCEPT !.read.invoked = 1, !.pass_id = passes + 1, !.gen_at = now]
                IN  IF ~env.model_loaded
                    THEN /\ task' = [task EXCEPT ![t] = Raise(p, 500)]
                         /\ UNCHANGED <<cache, zones>>
                    ELSE IF p.call.use_current_conditions
                    THEN /\ task' = [task EXCEPT ![t] = [p EXCEPT !.pc = "fetch_aqi"]]
                         /\ UNCHANGED <<cache, zones>>
                    ELSE \E pred \in PredictOutcomes : Produce(t, p, <<>>, pred)

\* GET /safety-areas
CallSafetyAreas(t) ==
    /\ task[t].pc = "idle"
    /\ \E call \in AreasCalls :
          Wrapper(t, [IdleTask EXCEPT !.op = "safety_areas", !.call = call])
    /\ UNCHANGED <<now, env, fn, gemini>>

\* the geocoder was not asked
NotGeocoded == [ok |-> FALSE, point |-> <<0, 0>>, status |-> 0]

\* resolve_point: a pair is range-checked, a name is geocoded (geo is what
\* the geocoder answered)
resolve_point(value, geo) ==
    IF value.kind = "name" THEN geo
    ELSE IF value.value[1] < 0 - 90000000 \/ value.value[1] > 90000000
    THEN [ok |-> FALSE, point |-> <<0, 0>>, status |-> 400]
    ELSE IF value.value[2] < 0 - 180000000 \/ value.value[2] > 180000000
    THEN [ok |-> FALSE, point |-> <<0, 0>>, status |-> 400]
    ELSE [ok |-> TRUE, point |-> value.value, status |-> 200]

\* variant: equal endpoints are not rejected
SafeRouteEntry_NoEqualCheck(t, start, end, avoid_risk_levels) ==
    LET r == [IdleTask EXCEPT !.op = "safe_route", !.call = RouteCall,
                              !.start_coords = start.point, !.end_coords = end.point,
                              !.avoid_risk_levels = avoid_risk_levels]
    IN  IF ~start.ok
        THEN /\ task' = [task EXCEPT ![t] = Raise(r, start.status)]
             /\ UNCHANGED <<cache, zones, passes>>
        ELSE IF ~end.ok
        THEN /\ task' = [task EXCEPT ![t] = Raise(r, end.status)]
             /\ UNCHANGED <<cache, zones, passes>>
        ELSE Wrapper(t, [r EXCEPT !.resolved = TRUE])

\* safe_route from the point where both resolve_point calls have returned
\* or raised up to the dataset read, lines 105-111; avoid_risk_levels is the
\* validated list of the request
SafeRouteEntry(t, start, end, avoid_risk_levels) ==
    LET r == [IdleTask EXCEPT !.op = "safe_route", !.call = RouteCall,
                              !.start_coords = start.point, !.end_coords = end.point,
                              !.avoid_risk_levels = avoid_risk_levels]
    IN  IF ~start.ok
        THEN /\ task' = [task EXCEPT ![t] = Raise(r, start.status)]
             /\ UNCHANGED <<cache, zones, passes>>
        ELSE IF ~end.ok
        THEN /\ task' = [task EXCEPT ![t] = Raise(r, end.status)]
             /\ UNCHANGED <<cache, zones, passes>>
        ELSE IF start.point = end.point
        THEN /\ task' = [task EXCEPT ![t] = Raise([r EXCEPT !.resolved = TRUE], 400)]
             /\ UNCHANGED <<cache, zones, passes>>
        ELSE Wrapper(t, [r EXCEPT !.resolved = TRUE])

\* POST /safe-route: the request is validated; a start given as a location
\* name suspends the handler in resolve_point at the geocoder request
\* (routing_service.py 25-26), a start given as a pair does not
CallSafeRoute(t) ==
    /\ task[t].pc = "idle"
    /\ \E s \in StartInputs, e \in EndInputs, levels \in LevelInputs :
          IF s.kind = "name"
          THEN /\ task' = [task EXCEPT ![t] =
                              [IdleTask EXCEPT !.op = "safe_route", !.pc = "geocode",
                                               !.avoid_risk_levels = normalize_risk_levels(levels),
                                               !.end_input = e]]
               /\ UNCHANGED <<cache, zones, passes>>
          ELSE SafeRouteEntry(t, resolve_point(s, NotGeocoded), resolve_point(e, NotGeocoded),
                              normalize_risk_levels(levels))
    /\ UNCHANGED <<now, env, fn, gemini>>

\* the geocoder answers for the start: safe_route goes on with the end, the
\* equality check and the dataset read
GeocodeReturn(t) ==
    /\ task[t].pc = "geocode"
    /\ \E geo \in GeocodeOutcomes :
          SafeRouteEntry(t, geo, resolve_point(task[t].end_input, NotGeocoded),
                         task[t].avoid_risk_levels)
    /\ UNCHANGED <<now, env, fn, gemini>>

\* POST /safe-route between two coordinate pairs outside every zone
CallSafeRouteOutside(t) ==
    /\ task[t].pc = "idle"
    /\ \E levels \in LevelInputs :
          SafeRouteEntry(t, resolve_point([kind |-> "pair", value |-> PointOutsideA], NotGeocoded),
                            resolve_point([kind |-> "pair", value |-> PointOutsideB], NotGeocoded),
                            normalize_risk_levels(levels))
    /\ UNCHANGED <<now, env, fn, gemini>>

\* fetch_aqi_from_waqi returns (or raises, which leaves aqi_data empty)
FetchAqiReturn(t) ==
    /\ task[t].pc = "fetch_aqi"
    /\ \E aqi \in AqiOutcomes, pred \in PredictOutcomes :
          Produce(t, task[t], IF aqi.ok THEN aqi.data ELSE <<>>, pred)
    /\ UNCHANGED <<now, passes, env, fn, gemini>>

\* the request is cancelled while it awaits an external call
Cancel(t) ==
    /\ task[t].pc \in {"geocode", "fetch_aqi", "call_ors", "call_ors_fallback"}
    /\ task' = [task EXCEPT ![t] =
                   [@ EXCEPT !.pc = "done",
                             !.response = [NoResponse EXCEPT !.kind = "cancelled"]]]
    /\ UNCHANGED <<now, cache, zones, passes, env, fn, gemini>>

\* the primary call_ors returns or raises
OrsReturn(t) ==
    /\ task[t].pc = "call_ors"
    /\ \E status \in OrsOutcomes :
          LET r == [task[t] EXCEPT !.ors_calls[Len(task[t].ors_calls)].status = status]
          IN  task' = [task EXCEPT ![t] =
                          IF status = 200 THEN PrimaryResponse(r)
                          ELSE PrimaryFailed(r, status)]
    /\ UNCHANGED <<now, cache, zones, passes, env, fn, gemini>>

\* the fallback call_ors returns or raises
OrsFallbackReturn(t) ==
    /\ task[t].pc = "call_ors_fallback"
    /\ \E status \in OrsOutcomes :
          LET r == [task[t] EXCEPT !.ors_calls[Len(task[t].ors_calls)].status = status]
          IN  task' = [task EXCEPT ![t] =
                          IF status = 200 THEN FallbackResponse(r)
                          ELSE Raise(r, status)]
    /\ UNCHANGED <<now, cache, zones, passes, env, fn, gemini>>

\* the response is sent and the coroutine ends
Complete(t) ==
    /\ task[t].pc = "done"
    /\ task' = [task EXCEPT ![t] = IdleTask]
    /\ UNCHANGED <<now, cache, zones, passes, env, fn, gemini>>

\* time passes
Tick ==
    /\ \E d \in TickSteps : now + d <= MaxTime /\ now' = now + d
    /\ UNCHANGED <<cache, zones, passes, env, task, fn, gemini>>

Next ==
    \/ \E t \in Tasks : CallSafetyAreas(t)
    \/ \E t \in Tasks : CallSafeRoute(t)
    \/ \E t \in Tasks : GeocodeReturn(t)
    \/ \E t \in Tasks : FetchAqiReturn(t)
    \/ \E t \in Tasks : Cancel(t)
    \/ \E t \in Tasks : OrsReturn(t)
    \/ \E t \in Tasks : OrsFallbackReturn(t)
    \/ \E t \in Tasks : Complete(t)
    \/ Tick

\* the whole program: both endpoints, concurrent requests
Spec == Init /\ [][Next]_vars

\* route requests only, one at a time
NextRoute ==
    \/ CallSafeRoute(1)
    \/ GeocodeReturn(1)
    \/ FetchAqiReturn(1)
    \/ Cancel(1)
    \/ OrsReturn(1)
    \/ OrsFallbackReturn(1)
    \/ Complete(1)
    \/ Tick

SpecRoute == Init /\ [][NextRoute]_vars

\* reads of the annotated dataset through the cache by concurrent
\* /safety-areas requests
NextCache ==
    \/ \E t \in Tasks : CallSafetyAreas(t)
    \/ \E t \in Tasks : FetchAqiReturn(t)
    \/ \E t \in Tasks : Cancel(t)
    \/ \E t \in Tasks : Complete(t)
    \/ Tick

\* the provider key plays no part in these reads
InitCache == Init /\ env.ors_api_key

SpecCache == InitCache /\ [][NextCache]_vars

\* the same reads with no concurrent callers: one request at a time
NextCacheSeq ==
    \/ CallSafetyAreas(1)
    \/ FetchAqiReturn(1)
    \/ Cancel(1)
    \/ Complete(1)
    \/ Tick

SpecCacheSeq == InitCache /\ [][NextCacheSeq]_vars

\* both endpoints, one request at a time, routes between points outside the
\* zones, all within one instant: every cache entry is fresh
NextEndpoints ==
    \/ CallSafetyAreas(1)
    \/ CallSafeRouteOutside(1)
    \/ FetchAqiReturn(1)
    \/ Cancel(1)
    \/ OrsReturn(1)
    \/ OrsFallbackReturn(1)
    \/ Complete(1)

\* with the model artifacts loaded and the provider key configured
InitEndpoints == Init /\ env.model_loaded /\ env.ors_api_key

SpecEndpoints == InitEndpoints /\ [][NextEndpoints]_vars

\* POST /safe-route from a point inside the first zone or outside every zone
CallSafeRouteFrom(t) ==
    /\ task[t].pc = "idle"
    /\ \E s \in {PointInTriangle, PointOutsideA} :
          SafeRouteEntry(t, resolve_point([kind |-> "pair", value |-> s], NotGeocoded),
                            resolve_point([kind |-> "pair", value |-> PointOutsideB], NotGeocoded),
                            normalize_risk_levels(<<"forbidden">>))
    /\ UNCHANGED <<now, env, fn, gemini>>

\* a route request of task 1 while task 2 runs annotation passes for
\* /safety-areas
NextRace ==
    \/ CallSafeRouteFrom(1)
    \/ CallSafetyAreas(2)
    \/ \E t \in Tasks : FetchAqiReturn(t)
    \/ OrsReturn(1)
    \/ OrsFallbackReturn(1)
    \/ \E t \in Tasks : Complete(t)

SpecRace == InitEndpoints /\ [][NextRace]_vars

\* route requests, one at a time, with a boundary file with or without zones
InitBoundaries ==
    /\ now = 0
    /\ cache = <<>>
    /\ zones = [i \in 1..NumZones |-> UnannotatedProps]
    /\ passes = 0
    /\ env \in BoundaryEnvironments
    /\ task = [t \in Tasks |-> IdleTask]
    /\ fn = NoFn
    /\ gemini = NoGemini

NextBoundaries ==
    \/ CallSafeRouteFrom(1)
    \/ FetchAqiReturn(1)
    \/ OrsReturn(1)
    \/ OrsFallbackReturn(1)
    \/ Complete(1)

SpecBoundaries == InitBoundaries /\ [][NextBoundaries]_vars

\* ------------------------------------------------- functions called directly
SeqsUpTo(S, n) == UNION {[1..k -> S] : k \in 0..n}

\* nothing but the direct call is going on
Quiet ==
    /\ now = 0
    /\ cache = <<>>
    /\ zones = [i \in 1..NumZones |-> UnannotatedProps]
    /\ passes = 0
    /\ env \in Environments /\ env.model_loaded /\ env.ors_api_key
    /\ task = [t \in Tasks |-> IdleTask]
    /\ gemini = NoGemini

CallOf(name, args) == [name |-> name, args |-> args, returned |-> FALSE, ret |-> <<>>]
Return(value) == [fn EXCEPT !.returned = TRUE, !.ret = value]
Returned(name) == fn.name = name /\ fn.returned

\* a Polygon whose outer ring does not return to its first vertex
UnclosedPolygon ==
    [type |-> "Polygon", coordinates |-> << << <<100, 0>>, <<140, 0>>, <<100, 40>> >> >>]

\* geometries of dataset zones: a Polygon, a MultiPolygon of two polygons, a
\* Polygon with an unclosed outer ring, a Polygon whose outer ring is empty,
\* a Polygon with no coordinates
AvoidGeometries ==
    {BOUNDARIES[1].geometry,
     BOUNDARIES[2].geometry,
     UnclosedPolygon,
     [type |-> "Polygon", coordinates |-> << <<>> >>],
     [type |-> "Polygon", coordinates |-> <<>>]}

AvoidFeatures ==
    {[properties |-> [risk_level |-> r], geometry |-> g] :
        r \in {"forbidden", "caution", None}, g \in AvoidGeometries}

AvoidLevelInputs == {<<>>, <<"forbidden">>, <<"Forbidden", "caution">>}

InitAvoid ==
    /\ Quiet
    /\ \E features \in SeqsUpTo(AvoidFeatures, MaxFeatures),
          levels \in AvoidLevelInputs, limit \in 0..MaxLimit :
          fn = CallOf("build_avoid_multipolygon",
                      [features |-> features, avoid_risk_levels |-> levels, limit |-> limit])

\* build_avoid_multipolygon(safety_polygons, avoid_risk_levels, limit)
EvalBuildAvoid ==
    /\ fn.name = "build_avoid_multipolygon" /\ ~fn.returned
    /\ fn' = Return(build_avoid_multipolygon(fn.args.features, fn.args.avoid_risk_levels,
                                             fn.args.limit))
    /\ UNCHANGED <<now, cache, zones, passes, env, task, gemini>>

SpecAvoid == InitAvoid /\ [][EvalBuildAvoid]_vars

\* avoid_risk_levels as a client may send them
LevelStrings == {"forbidden", "Forbidden", " CAUTION ", "Safe", ""}

\* an annotated zone with a closed outer ring
ZoneWithRisk(risk_level) ==
    [properties |-> [risk_level |-> risk_level], geometry |-> BOUNDARIES[1].geometry]

InitLevels ==
    /\ Quiet
    /\ \E value \in SeqsUpTo(LevelStrings, MaxLevels) :
          fn = CallOf("normalize_risk_levels", value)

\* the validator, then the avoid filter applied to one zone of each risk level
EvalNormalize ==
    /\ fn.name = "normalize_risk_levels" /\ ~fn.returned
    /\ LET levels == normalize_risk_levels(fn.args)
       IN  fn' = Return([levels |-> levels,
                         avoided |-> {z \in {"safe", "caution", "forbidden"} :
                             build_avoid_multipolygon(<<ZoneWithRisk(z)>>, levels, AvoidLimit)
                                 # NoneGeometry}])
    /\ UNCHANGED <<now, cache, zones, passes, env, task, gemini>>

SpecLevels == InitLevels /\ [][EvalNormalize]_vars

\* coordinates with a sixth decimal digit (13e-6, -17e-6, and 25e-6, half
\* way between two fifth digits) and without
BboxCoords == {0 - 17, 0, 13, 25}
BboxRings == SeqsUpTo(BboxCoords \X BboxCoords, MaxRing)

InitBbox == Quiet /\ \E ring \in BboxRings : fn = CallOf("_bisect_bbox", ring)

\* _bisect_bbox(coords)
EvalBisectBbox ==
    /\ fn.name = "_bisect_bbox" /\ ~fn.returned
    /\ fn' = Return(_bisect_bbox(fn.args))
    /\ UNCHANGED <<now, cache, zones, passes, env, task, gemini>>

SpecBbox == InitBbox /\ [][EvalBisectBbox]_vars

\* closed rings <<lng, lat>> on a grid: every three vertices, a square, a concave
\* quadrilateral and a self-crossing one
GridVertices == {0, 20, 40} \X {0, 20, 40}
Closed(open) == Append(open, open[1])
PipRings ==
    {Closed(<<a, b, c>>) : a, b, c \in GridVertices}
    \cup {Closed(<< <<0, 0>>, <<40, 0>>, <<40, 40>>, <<0, 40>> >>),
          Closed(<< <<0, 0>>, <<40, 0>>, <<20, 20>>, <<40, 40>>, <<0, 40>> >>),
          Closed(<< <<0, 0>>, <<40, 40>>, <<40, 0>>, <<0, 40>> >>)}

\* points <<lat, lng>>: latitudes on and between the grid lines; with
\* longitude 10 some lie exactly on a slanted edge, as <<30, 10>> on the edge
\* <<40, 0>> -> <<0, 40>>
PipPoints == {0, 10, 20, 30, 40} \X {0 - 10, 7, 10, 27, 50}

\* the ring started k vertices later: closed again, or the list as it is
RotateList(ring, k) ==
    [i \in 1..Len(ring) |-> ring[((i - 1 + k) % Len(ring)) + 1]]
RotateClosed(ring, k) == Closed(RotateList(SubSeq(ring, 1, Len(ring) - 1), k))

InitPip ==
    /\ Quiet
    /\ \E point \in PipPoints, ring \in PipRings, k \in 1..MaxShift :
          \E rotated \in {RotateClosed(ring, k), RotateList(ring, k)} :
              fn = CallOf("point_in_polygon",
                          [point |-> point, polygon |-> ring, rotated |-> rotated])

\* point_in_polygon(point, polygon) and point_in_polygon(point, rotated)
EvalPointInPolygon ==
    /\ fn.name = "point_in_polygon" /\ ~fn.returned
    /\ fn' = Return([polygon |-> point_in_polygon(fn.args.point, fn.args.polygon),
                     rotated |-> point_in_polygon(fn.args.point, fn.args.rotated)])
    /\ UNCHANGED <<now, cache, zones, passes, env, task, gemini>>

SpecPip == InitPip /\ [][EvalPointInPolygon]_vars

\* safety scores 0.00 .. 1.00 in steps of 0.01 and next to the thresholds
ScoreInputs == {100 * k : k \in 0..100} \cup {3999, 4001, 6999, 7001}
LabelInputs == {"Safe", "Moderate Risk", "Unknown", "High Risk", "HIGH RISK"}

InitClassify ==
    /\ Quiet
    /\ \E score \in ScoreInputs, label \in LabelInputs :
          fn = CallOf("_classify_risk_level",
                      [safety_score |-> score, predicted_label |-> label])

\* _classify_risk_level(safety_score, predicted_label)
EvalClassify ==
    /\ fn.name = "_classify_risk_level" /\ ~fn.returned
    /\ fn' = Return(_classify_risk_level(fn.args.safety_score, fn.args.predicted_label))
    /\ UNCHANGED <<now, cache, zones, passes, env, task, gemini>>

SpecClassify == InitClassify /\ [][EvalClassify]_vars

\* rings of fewer than 3 points, and the closed rings of the axis-aligned
\* rectangles on the grid, from every starting corner in both directions
DegenerateRings == SeqsUpTo(GridVertices, 2)
RectangleRings ==
    {RotateClosed(ring, k) :
        ring \in UNION {{Closed(<< <<w, s>>, <<e, s>>, <<e, n>>, <<w, n>> >>),
                         Closed(<< <<w, s>>, <<w, n>>, <<e, n>>, <<e, s>> >>)} :
                        w \in {0, 20}, e \in {20, 40}, s \in {0, 20}, n \in {20, 40}},
        k \in 0..3}
RingPoints == {0 - 10, 0, 10, 20, 30, 40, 50} \X {0 - 10, 7, 27, 50}

InitRing ==
    /\ Quiet
    /\ \E point \in RingPoints, ring \in DegenerateRings \cup RectangleRings :
          fn = CallOf("point_in_polygon(ring)", [point |-> point, polygon |-> ring])

\* point_in_polygon(point, polygon): its value, or the exception it raises
EvalPointInRing ==
    /\ fn.name = "point_in_polygon(ring)" /\ ~fn.returned
    /\ fn' = Return(IF point_in_polygon_raises(fn.args.polygon)
                    THEN [raised |-> TRUE, value |-> FALSE]
                    ELSE [raised |-> FALSE,
                          value |-> point_in_polygon(fn.args.point, fn.args.polygon)])
    /\ UNCHANGED <<now, cache, zones, passes, env, task, gemini>>

SpecRing == InitRing /\ [][EvalPointInRing]_vars

\* class orders of up to MaxClasses names, probability vectors of up to
\* MaxClasses entries 0, 0.25 or 1; is_none stands for the argument None
ClassNames == {"Safe", "High Risk", "Moderate Risk", "Unsafe"}
ProbInputs == {0, 2500, 10000}

InitExtract ==
    /\ Quiet
    /\ \E v \in SeqsUpTo(ProbInputs, MaxClasses), order \in SeqsUpTo(ClassNames, MaxClasses),
          is_none \in BOOLEAN :
          /\ is_none => v = <<>>
          /\ fn = CallOf("_extract_safe_probability",
                         [is_none |-> is_none, prob_vector |-> v, class_order |-> order])

\* _extract_safe_probability(prob_vector, class_order)
EvalExtract ==
    /\ fn.name = "_extract_safe_probability" /\ ~fn.returned
    /\ fn' = Return(IF fn.args.is_none THEN DefaultScore
                    ELSE _extract_safe_probability(fn.args.prob_vector, fn.args.class_order))
    /\ UNCHANGED <<now, cache, zones, passes, env, task, gemini>>

SpecExtract == InitExtract /\ [][EvalExtract]_vars

\* predictions of the producer called directly: labels in several letter
\* cases, safe probabilities in the three score ranges; PredLow has a column
\* for two of the three classes of the label encoder, so its score is 1.0
\* minus the "High Risk" column
PredHighUpper == [label |-> "HIGH RISK", probs |-> <<1000, 1000, 8000>>]
PredHighLower == [label |-> "high", probs |-> <<3000, 2000, 5000>>]
PredLow == [label |-> "Moderate Risk", probs |-> <<8800, 1200>>]
PassPreds == {PredSafe, PredHigh, PredModerate, PredHighUpper, PredHighLower, PredLow}

\* predict_safety raises, or returns k <= NumZones predictions
\* live readings for the direct calls: also one with a reading for each zone
PassAqiOutcomes ==
    AqiOutcomes \cup {[ok |-> TRUE, data |-> [alipur |-> 9001, narela |-> 8004]]}

\* the keys of POLICE_STATION_COORDINATES, in the order of the dict
StationKeyLists == {<<>>, <<"alipur", "narela">>}

PassPredictOutcomes ==
    {[ok |-> FALSE, preds |-> <<>>]}
    \cup {[ok |-> TRUE, preds |-> p] : p \in SeqsUpTo(PassPreds, NumZones)}

InitPass == Quiet /\ fn = CallOf("get_safety_polygons", <<>>)

\* lines 222-360 of a direct call: rows, prediction, annotation, the
\* returned dict; args records what the pass was given
PassFinish(ucc, gen_at, pass_id, aqi, pred, ps_names) ==
    LET aqi_data == IF ucc /\ aqi.ok THEN aqi.data ELSE <<>>
        call == [n |-> 3, month |-> Absent, day |-> Absent, use_current_conditions |-> ucc]
        args == [use_current_conditions |-> ucc, aqi |-> aqi, pred |-> pred,
                 ps_names |-> ps_names]
        rows == [idx \in 1..NumZones |-> FeatureRowAqi(idx, aqi_data, ps_names)]
    IN  IF ~pred.ok
        THEN /\ fn' = [name |-> "get_safety_polygons", args |-> args, returned |-> TRUE,
                       ret |-> [ok |-> FALSE, status |-> 500, data |-> NoDataset,
                                features |-> <<>>, rows |-> rows]]
             /\ UNCHANGED zones
        ELSE LET heap == AnnotateAll(zones, pred.preds, aqi_data, env.class_order)
                 data == NewDataset(pass_id, gen_at, call, aqi_data)
             IN  /\ zones' = heap
                 /\ fn' = [name |-> "get_safety_polygons", args |-> args,
                           returned |-> TRUE,
                           ret |-> [ok |-> TRUE, status |-> 200, data |-> data,
                                    features |-> PropsOf(data, heap), rows |-> rows]]

\* the fetch is not made when use_current_conditions is false
NotFetched == [ok |-> FALSE, data |-> <<>>]

\* get_safety_polygons.__wrapped__(None, None, use_current_conditions): the
\* pass reads the clock (line 193); with live conditions it suspends at
\* await fetch_aqi_from_waqi (line 214), without them it runs to its end
EvalPass ==
    /\ fn.name = "get_safety_polygons"
    /\ passes < MaxPasses
    /\ passes' = passes + 1
    /\ \E ucc \in BOOLEAN :
          IF ucc
          THEN /\ fn' = CallOf("fetch_aqi_from_waqi",
                               [gen_at |-> now, pass_id |-> passes + 1])
               /\ UNCHANGED zones
          ELSE \E pred \in PassPredictOutcomes, ps_names \in StationKeyLists :
                  PassFinish(FALSE, now, passes + 1, NotFetched, pred, ps_names)
    /\ UNCHANGED <<now, cache, env, task, gemini>>

\* the fetch returns or raises and the suspended pass runs to its end
EvalPassResume ==
    /\ fn.name = "fetch_aqi_from_waqi" /\ ~fn.returned
    /\ \E aqi \in PassAqiOutcomes, pred \in PassPredictOutcomes, ps_names \in StationKeyLists :
          PassFinish(TRUE, fn.args.gen_at, fn.args.pass_id, aqi, pred, ps_names)
    /\ UNCHANGED <<now, cache, passes, env, task, gemini>>

\* while the pass is suspended another caller runs a whole pass without live
\* conditions on the same event loop; its dict goes to that caller
EvalPassConcurrent ==
    /\ fn.name = "fetch_aqi_from_waqi" /\ ~fn.returned
    /\ passes < MaxPasses
    /\ passes' = passes + 1
    /\ \E pred \in PassPredictOutcomes :
          zones' = IF pred.ok THEN AnnotateAll(zones, pred.preds, <<>>, env.class_order)
                   ELSE zones
    /\ UNCHANGED <<now, cache, env, task, fn, gemini>>

NextPass ==
    \/ EvalPass
    \/ EvalPassResume
    \/ EvalPassConcurrent
    \/ Tick

\* producer passes called directly
SpecPass == InitPass /\ [][NextPass]_vars

\* ----------------------------------------------------------- gemini_service.py
\* a dict as the sequence of its items in insertion order
DictKeys(d) == {d[j].key : j \in 1..Len(d)}
DictGet(d, k) == d[CHOOSE j \in 1..Len(d) : d[j].key = k].value
DictSet(d, k, v) ==
    IF k \in DictKeys(d)
    THEN [j \in 1..Len(d) |-> IF d[j].key = k THEN [key |-> k, value |-> v] ELSE d[j]]
    ELSE Append(d, [key |-> k, value |-> v])

\* lines 48-51: {s: 150.0 for s in stations} over the stripped names
RECURSIVE DefaultResults(_)
DefaultResults(police_stations) ==
    IF police_stations = <<>> THEN <<>>
    ELSE DictSet(DefaultResults(SubSeq(police_stations, 1, Len(police_stations) - 1)),
                 Strip(police_stations[Len(police_stations)]), DefaultAqi)

\* line 238: stations[i:i + batch_size] for i in range(0, len(stations), batch_size)
Batches(stations, batch_size) ==
    [b \in 1..((Len(stations) + batch_size - 1) \div batch_size) |->
        SubSeq(stations, (b - 1) * batch_size + 1, Min2(b * batch_size, Len(stations)))]

\* lines 210-222: the numeric items of the parsed object, under stripped keys
RECURSIVE BatchResult(_)
BatchResult(parsed) ==
    IF parsed = <<>> THEN <<>>
    ELSE LET rest == BatchResult(SubSeq(parsed, 1, Len(parsed) - 1))
             item == parsed[Len(parsed)]
         IN  IF item.kind \in {"number", "aqi"}
             THEN DictSet(rest, Strip(item.key), item.value)
             ELSE rest

\* lines 252-262: the key itself, else the first key equal to it in lower
\* case, else the unknown key is added
MergeItem(merged_results, k, v) ==
    IF k \in DictKeys(merged_results) THEN DictSet(merged_results, k, v)
    ELSE IF \E j \in 1..Len(merged_results) : Lower(merged_results[j].key) = Lower(k)
    THEN LET j == CHOOSE j \in 1..Len(merged_results) :
                    /\ Lower(merged_results[j].key) = Lower(k)
                    /\ \A h \in 1..(j - 1) : Lower(merged_results[h].key) # Lower(k)
         IN  DictSet(merged_results, merged_results[j].key, v)
    ELSE Append(merged_results, [key |-> k, value |-> v])

\* lines 250-262
RECURSIVE Merge(_, _)
Merge(merged_results, batch_result) ==
    IF batch_result = <<>> THEN merged_results
    ELSE LET item == batch_result[Len(batch_result)]
         IN  MergeItem(Merge(merged_results, SubSeq(batch_result, 1, Len(batch_result) - 1)),
                       item.key, item.value)

\* lines 267-271
Clamp(val) == Max2(0, Min2(IF val < 0 THEN 0 ELSE val, MaxAqi))

\* lines 265-273
ClampAll(merged_results) ==
    [j \in 1..Len(merged_results) |->
        [key |-> merged_results[j].key, value |-> Clamp(merged_results[j].value)]]

\* texts of a 200 response, as the object json.loads makes of them
BodyStripped == <<[key |-> " Alipur ", kind |-> "number", value |-> 12000]>>
BodyMixed ==
    <<[key |-> "ALIPUR", kind |-> "aqi", value |-> 0 - 500],
      [key |-> "Rohini", kind |-> "number", value |-> 120000],
      [key |-> "narela", kind |-> "other", value |-> 0]>>

\* what one client.post can come to: an exception, a status other than 200,
\* or 200 with a text; an empty body stands for a text with no JSON object
HttpOutcomes ==
    {[kind |-> "exception", status |-> 0, json_ok |-> FALSE, body |-> <<>>],
     [kind |-> "response", status |-> 429, json_ok |-> TRUE, body |-> <<>>],
     [kind |-> "response", status |-> 429, json_ok |-> FALSE, body |-> <<>>],
     [kind |-> "response", status |-> 500, json_ok |-> FALSE, body |-> <<>>],
     [kind |-> "response", status |-> 400, json_ok |-> FALSE, body |-> <<>>],
     [kind |-> "response", status |-> 200, json_ok |-> TRUE, body |-> <<>>],
     [kind |-> "response", status |-> 200, json_ok |-> TRUE, body |-> BodyStripped],
     [kind |-> "response", status |-> 200, json_ok |-> TRUE, body |-> BodyMixed]}

StationNames == {"Alipur", " Alipur ", "narela"}
BatchSizes == {1, 2}
ApiKeys == {"", "key"}

\* lines 247-262 and the loop of line 241: the batch's result is merged, then
\* either the delay before the next batch or the final clamp and the return
AfterBatch(g, batch_result) ==
    LET merged_results == Merge(g.merged, batch_result)
        results == Append(g.results, batch_result)
    IN  IF g.i < Len(g.batches)
        THEN [g EXCEPT !.merged = merged_results, !.results = results,
                       !.i = @ + 1, !.pc = "delay"]
        ELSE [g EXCEPT !.merged = ClampAll(merged_results), !.results = results,
                       !.pc = "done"]

\* lines 81-85: the loop test, then the next request is sent; line 235 when
\* the attempts are used up
LoopTest(g, max_retries) ==
    IF g.attempt < max_retries
    THEN [g EXCEPT !.attempt = @ + 1, !.pc = "post", !.requests[g.i] = @ + 1]
    ELSE AfterBatch(g, <<>>)

\* lines 77-79: a call of call_gemini_for_batch starts; re is a local name of
\* that function (line 106) and unbound in every new call
StartBatch(g, max_retries) ==
    LoopTest([g EXCEPT !.attempt = 0, !.re_bound = FALSE, !.resp = NoResp,
                       !.requests = Append(@, 0)], max_retries)

\* lines 224-231: the handler of every exception of an attempt
AttemptFailed(g, max_retries) ==
    IF g.attempt >= max_retries THEN AfterBatch(g, <<>>) ELSE [g EXCEPT !.pc = "sleep"]

\* the coroutine is at g; when it is done the call returns its mapping
GeminiAt(g) ==
    /\ gemini' = g
    /\ fn' = IF g.pc = "done" THEN Return([raised |-> FALSE, value |-> g.merged]) ELSE fn

\* fetch_aqi_from_gemini up to its first await, lines 44-51 and 238-247
GeminiEnter ==
    /\ fn.name = "fetch_aqi_from_gemini" /\ ~fn.returned /\ gemini.pc = "idle"
    /\ IF fn.args.gemini_api_key = ""
       THEN /\ fn' = Return([raised |-> TRUE, value |-> <<>>])
            /\ gemini' = [gemini EXCEPT !.pc = "done"]
       ELSE LET stations == [j \in 1..Len(fn.args.police_stations) |->
                                Strip(fn.args.police_stations[j])]
                g == [gemini EXCEPT !.merged = DefaultResults(fn.args.police_stations),
                                    !.batches = Batches(stations, fn.args.batch_size),
                                    !.i = 1]
            IN  IF Len(g.batches) = 0
                THEN GeminiAt([g EXCEPT !.merged = ClampAll(g.merged), !.pc = "done"])
                ELSE GeminiAt(StartBatch(g, fn.args.max_retries))
    /\ UNCHANGED <<now, cache, zones, passes, env, task>>

\* client.post returns or raises, lines 85-231.  Line 150 reads the local
\* name re, which only the import of line 106 binds: 200 is parsed only
\* after a 429 of the same call whose body line 103-104 could read
PostReturn ==
    /\ gemini.pc = "post"
    /\ \E o \in HttpOutcomes :
          LET g == [gemini EXCEPT !.resp = o]
              max_retries == fn.args.max_retries
          IN  GeminiAt(
                IF o.kind = "exception" THEN AttemptFailed(g, max_retries)
                ELSE IF o.status = 429
                THEN [g EXCEPT !.re_bound = @ \/ o.json_ok, !.pc = "sleep"]
                ELSE IF o.status # 200
                THEN IF 500 <= o.status /\ o.status < 600
                     THEN [g EXCEPT !.pc = "sleep"]
                     ELSE AttemptFailed(g, max_retries)
                ELSE IF ~g.re_bound \/ o.body = <<>>
                THEN AttemptFailed(g, max_retries)
                ELSE AfterBatch(g, BatchResult(o.body)))
    /\ UNCHANGED <<now, cache, zones, passes, env, task>>

\* asyncio.sleep of line 114, 121 or 230 returns
SleepReturn ==
    /\ gemini.pc = "sleep"
    /\ GeminiAt(LoopTest(gemini, fn.args.max_retries))
    /\ UNCHANGED <<now, cache, zones, passes, env, task>>

\* asyncio.sleep(request_delay) of line 244 returns
DelayReturn ==
    /\ gemini.pc = "delay"
    /\ GeminiAt(StartBatch(gemini, fn.args.max_retries))
    /\ UNCHANGED <<now, cache, zones, passes, env, task>>

InitGemini ==
    /\ Quiet
    /\ \E police_stations \in SeqsUpTo(StationNames, MaxStations),
          gemini_api_key \in ApiKeys, batch_size \in BatchSizes,
          max_retries \in 0..MaxRetries :
          fn = CallOf("fetch_aqi_from_gemini",
                      [police_stations |-> police_stations,
                       gemini_api_key |-> gemini_api_key,
                       batch_size |-> batch_size, max_retries |-> max_retries])

NextGemini == GeminiEnter \/ PostReturn \/ SleepReturn \/ DelayReturn

SpecGemini == InitGemini /\ [][NextGemini]_vars

\* ------------------------------------------------------------------ claims
RetryStatuses == {400, 404, 413, 504}
Failed(c) == c.status # Absent /\ c.status # 200

\* C1: when the primary provider call fails with 400, 404, 413 or 504 and it
\* carried at least one avoidance polygon, the request makes exactly one
\* further provider call, and that call carries no avoidance polygon.
C1_RetryOnceWithoutAvoidance ==
    \A t \in Tasks :
        LET c == task[t].ors_calls
        IN  (Len(c) >= 1 /\ c[1].status \in RetryStatuses /\ c[1].avoid_count >= 1)
                => (Len(c) = 2 /\ c[2].avoid_count = 0)

C1_Witness ==
    \E t \in Tasks :
        LET c == task[t].ors_calls
        IN  /\ Len(c) = 2
            /\ c[1].status = 413
            /\ c[1].avoid_count >= 1
            /\ c[2].avoid_count = 0
            /\ c[2].status = 200

\* C2: a route returned after a successful fallback call has metadata
\* fallback_used = true, avoid_polygons_count = 0 and no avoid levels,
\* whatever the primary attempt used.
C2_FallbackMetadata ==
    \A t \in Tasks :
        (/\ task[t].pc = "done"
         /\ task[t].response.kind = "ok"
         /\ Len(task[t].ors_calls) = 2)
            => /\ task[t].response.metadata.fallback_used = TRUE
               /\ task[t].response.metadata.avoid_polygons_count = 0
               /\ task[t].response.metadata.avoid_risk_levels = <<>>

C2_Witness ==
    \E t \in Tasks :
        /\ task[t].pc = "done"
        /\ task[t].response.kind = "ok"
        /\ Len(task[t].ors_calls) = 2
        /\ task[t].ors_calls[1].avoid_count = 2
        /\ task[t].effective_avoid_levels = <<"forbidden", "caution">>
        /\ task[t].response.metadata.fallback_used

\* C3: a primary failure with a status outside {400, 404, 413, 504}, a primary
\* failure of a call that carried no avoidance polygon, and a failure of the
\* fallback call each end the request with the failing call's status and
\* with no further provider call; no request makes more than two calls.
C3_FailuresPropagate ==
    \A t \in Tasks :
        LET c == task[t].ors_calls
            propagated(status) ==
                /\ task[t].pc = "done"
                /\ task[t].response.kind = "error"
                /\ task[t].response.status = status
        IN  /\ Len(c) <= 2
            /\ (/\ Len(c) >= 1
                /\ Failed(c[1])
                /\ (c[1].status \notin RetryStatuses \/ c[1].avoid_count = 0))
                  => (Len(c) = 1 /\ propagated(c[1].status))
            /\ (Len(c) = 2 /\ Failed(c[2])) => propagated(c[2].status)

C3_Witness ==
    \E t \in Tasks :
        LET c == task[t].ors_calls
        IN  /\ Len(c) = 1
            /\ c[1].status = 503
            /\ c[1].avoid_count >= 1
            /\ task[t].response.status = 503

\* the outer rings of a zone: of the polygon, or of each of its sub-polygons
OuterRings(geometry) ==
    IF geometry.type = "Polygon" THEN {geometry.coordinates[1]}
    ELSE {geometry.coordinates[j][1] : j \in 1..Len(geometry.coordinates)}

\* an endpoint of the request of t is inside a zone whose risk level, as the
\* request saw it, is one the request asked to avoid
EndpointInAvoidedZone(t) ==
    \E i \in 1..Len(task[t].seen_risk) :
        /\ \E j \in 1..Len(task[t].avoid_risk_levels) :
              task[t].avoid_risk_levels[j] = task[t].seen_risk[i]
        /\ \E ring \in OuterRings(BOUNDARIES[i].geometry) :
              \/ point_in_polygon(task[t].start_coords, ring)
              \/ point_in_polygon(task[t].end_coords, ring)

\* C4: if the start or the end point is inside a zone whose risk level is in
\* the requested avoid set, the effective avoid set is empty, no provider
\* call of the request carries avoidance polygons, and the metadata of a
\* returned route has no avoid levels and polygon count 0.
C4_EndpointInZoneSuppressesAvoidance ==
    \A t \in Tasks :
        (task[t].op = "safe_route" /\ EndpointInAvoidedZone(t))
            => /\ task[t].effective_avoid_levels = <<>>
               /\ task[t].num_avoid_polygons = 0
               /\ \A i \in 1..Len(task[t].ors_calls) : task[t].ors_calls[i].avoid_count = 0
               /\ task[t].response.kind = "ok"
                    => /\ task[t].response.metadata.avoid_risk_levels = <<>>
                       /\ task[t].response.metadata.avoid_polygons_count = 0

C4_Witness ==
    \E t \in Tasks :
        /\ task[t].op = "safe_route"
        /\ task[t].avoid_risk_levels = <<"forbidden">>
        /\ task[t].end_coords = PointInSquare
        /\ Len(task[t].seen_risk) = NumZones
        /\ task[t].seen_risk[2] = "forbidden"
        /\ point_in_polygon(task[t].end_coords, BOUNDARIES[2].geometry.coordinates[2][1])
        /\ task[t].response.kind = "ok"
        /\ task[t].response.metadata.avoid_polygons_count = 0

\* C5: a route request whose resolved start and end are equal ends with 400
\* in the step that starts it: the dataset is not read through the cache,
\* no provider call is made, and the cache, the producer count and the
\* zone annotations are as before.
C5_EqualEndpointsRejectedFirst ==
    [][\A t \in Tasks :
          (/\ task[t].pc = "idle"
           /\ task'[t].pc # "idle"
           /\ task'[t].op = "safe_route"
           /\ task'[t].resolved
           /\ task'[t].start_coords = task'[t].end_coords)
             => /\ task'[t].pc = "done"
                /\ task'[t].response.kind = "error"
                /\ task'[t].response.status = 400
                /\ ~task'[t].read.made
                /\ task'[t].ors_calls = <<>>
                /\ cache' = cache
                /\ passes' = passes
                /\ zones' = zones]_vars

C5_Witness ==
    \E t \in Tasks :
        /\ task[t].pc = "done"
        /\ task[t].op = "safe_route"
        /\ task[t].resolved
        /\ task[t].start_coords = task[t].end_coords
        /\ task[t].response.status = 400
        /\ DOMAIN cache # {}

\* C6: a read returns the stored value without invoking the producer exactly
\* when an entry for the key exists and is less than 30 minutes old at the
\* read; in every other case the producer is invoked.
C6_HitIffFresh ==
    \A t \in Tasks :
        task[t].read.made
            => /\ (task[t].read.invoked = 0)
                    <=> (/\ task[t].read.had_entry
                         /\ task[t].read.at - task[t].read.entry_time < 30)
               /\ (task[t].read.invoked = 0 /\ task[t].op = "safety_areas")
                    => /\ task[t].pc = "done"
                       /\ task[t].response.kind = "ok"
                       /\ task[t].response.data.id = task[t].read.entry_id

C6_Witness ==
    \E t, u \in Tasks :
        /\ task[t].read.made
        /\ task[t].read.had_entry
        /\ task[t].read.at - task[t].read.entry_time = 15
        /\ task[t].read.invoked = 0
        /\ task[u].read.made
        /\ task[u].read.had_entry
        /\ task[u].read.at - task[u].read.entry_time = 30
        /\ task[u].read.invoked = 1

\* C7: a read served from the cache returns the value as the read that
\* stored the entry returned it: same zone annotations, same metadata.
C7_SameValueWithinTtl ==
    \A t \in Tasks :
        (task[t].read.made /\ task[t].read.invoked = 0)
            => task[t].read.got = task[t].read.first

\* C8: no step changes the risk_level, safety_score, predicted_label or aqi
\* of a zone of a dataset that is in the cache.
AnnotationOf(props) ==
    [risk_level |-> props.risk_level, safety_score |-> props.safety_score,
     predicted_label |-> props.predicted_label, aqi |-> props.aqi]

C8_ReturnedDatasetsNeverChange ==
    [][\A k \in DOMAIN cache :
          \A i \in 1..Len(cache[k].data.features) :
              AnnotationOf(zones'[cache[k].data.features[i]])
                  = AnnotationOf(zones[cache[k].data.features[i]])]_vars

\* a call of t that has invoked the producer and has not stored a value
Unstored(r) == r.read.made /\ r.read.invoked = 1 /\ r.read.stored_at = Absent

\* C9: a step of a call whose producer raises or is cancelled leaves the
\* cache map and the cached values as they were, and the call ends with
\* the failure: error 500, or the cancellation.
C9_FailedProducerLeavesCache ==
    [][\A t \in Tasks :
          (task'[t] # task[t] /\ Unstored(task'[t]))
             => /\ cache' = cache
                /\ zones' = zones
                /\ task'[t].pc = "done"
                     => \/ task'[t].response.kind = "cancelled"
                        \/ /\ task'[t].response.kind = "error"
                           /\ task'[t].response.status = 500]_vars

C9_Witness ==
    \E t \in Tasks :
        /\ task[t].pc = "done"
        /\ Unstored(task[t])
        /\ task[t].response.kind = "error"
        /\ task[t].read.had_entry
        /\ task[t].read.key \in DOMAIN cache
        /\ cache[task[t].read.key].time = task[t].read.entry_time

\* C10: with one caller at a time, a read that finds an expired entry and
\* returns has invoked the producer once, and the entry it leaves holds the
\* value it returns with the time of the store; a read that starts less
\* than 30 minutes after an entry's timestamp returns that entry's value
\* and invokes no producer.
C10_ExpiredReadRefreshesOnce ==
    [][/\ (/\ task[1].pc # "done"
           /\ task'[1].pc = "done"
           /\ task'[1].response.kind = "ok"
           /\ task'[1].read.had_entry
           /\ task'[1].read.at - task'[1].read.entry_time >= 30)
             => /\ passes' = task'[1].read.passes_before + 1
                /\ task'[1].read.key \in DOMAIN cache'
                /\ cache'[task'[1].read.key].data = task'[1].response.data
                /\ cache'[task'[1].read.key].time = now'
       /\ \A call \in AreasCalls :
             (/\ task[1].pc = "idle"
              /\ task'[1].pc # "idle"
              /\ task'[1].call = call
              /\ cache_key(call) \in DOMAIN cache
              /\ now - cache[cache_key(call)].time < 30)
                => /\ passes' = passes
                   /\ task'[1].pc = "done"
                   /\ task'[1].response.data = cache[cache_key(call)].data]_vars

C10_Witness ==
    /\ task[1].pc = "done"
    /\ task[1].response.kind = "ok"
    /\ task[1].read.had_entry
    /\ task[1].read.at - task[1].read.entry_time >= 30
    /\ task[1].read.stored_at > task[1].read.at
    /\ cache[task[1].read.key].time = task[1].read.stored_at

\* a caller in flight: it missed, invoked the producer and has not stored yet
InFlight(t) == task[t].pc = "fetch_aqi" /\ task[t].read.invoked = 1

\* C11: concurrent callers that miss on the same key are not deduplicated:
\* a caller that misses while another caller of the same key is in flight
\* invokes the producer again, every caller that completes returns the
\* dataset of its own pass, and its store replaces the entry with its value
\* and its store time, so the entry left is that of the last caller to store.
C11_ConcurrentMissesNotDeduplicated ==
    [][\A t \in Tasks :
        /\ (/\ task[t].pc = "idle"
            /\ task'[t].read.made
            /\ ~CacheHit(task'[t].read.key)
            /\ \E u \in Tasks \ {t} : InFlight(u) /\ task[u].read.key = task'[t].read.key)
           => /\ passes' = passes + 1
              /\ task'[t].read.invoked = 1
              /\ task'[t].pass_id = passes'
        /\ (InFlight(t) /\ task'[t].pc = "done" /\ task'[t].response.kind = "ok")
           => /\ task'[t].response.data.id = task[t].pass_id
              /\ task[t].read.key \in DOMAIN cache'
              /\ cache'[task[t].read.key].data.id = task[t].pass_id
              /\ cache'[task[t].read.key].time = now]_vars

\* both callers found the key missing, so neither had stored when the other
\* read; both completed with datasets of different passes and the entry is
\* the first caller's, who stored last
C11_Witness ==
    /\ \A t \in Tasks : /\ task[t].pc = "done"
                         /\ task[t].response.kind = "ok"
                         /\ task[t].read.invoked = 1
                         /\ ~task[t].read.had_entry
                         /\ task[t].response.data.id = task[t].pass_id
    /\ task[1].read.key = task[2].read.key
    /\ task[1].pass_id = 1 /\ task[2].pass_id = 2
    /\ passes = 2
    /\ cache[task[1].read.key].data.id = 1

\* the month, day and use_current_conditions a key stands for: the
\* parameters' defaults when the call passed no argument
LogicalInputs(key) == IF key[2] = <<>> THEN <<"None", "None", "True">> ELSE key[2]

\* C12: the cache key is a function of the logical inputs: a read of
\* get_safety_polygons that finds a fresh entry stored by a call with the same
\* month, day and use-live flag is a hit, however either call passed its
\* arguments, so the route endpoint reuses what /safety-areas cached with
\* default inputs.
C12_KeyIsLogicalInputs ==
    [][\A t \in Tasks :
        (/\ task[t].pc = "idle"
         /\ task'[t].read.made
         /\ \E k \in DOMAIN cache :
               /\ LogicalInputs(k) = LogicalInputs(task'[t].read.key)
               /\ IsFresh(cache[k].time, now))
        => task'[t].read.invoked = 0]_vars

\* the non-empty outer rings of the zones whose risk level is avoided
RECURSIVE NumNonEmpty(_)
NumNonEmpty(rings) ==
    IF rings = <<>> THEN 0
    ELSE (IF Head(rings) # <<>> THEN 1 ELSE 0) + NumNonEmpty(Tail(rings))

OuterRingSeq(geometry) ==
    IF geometry.coordinates = <<>> THEN <<>>
    ELSE IF geometry.type = "Polygon" THEN <<geometry.coordinates[1]>>
    ELSE [j \in 1..Len(geometry.coordinates) |-> geometry.coordinates[j][1]]

RECURSIVE QualifyingCount(_, _)
QualifyingCount(features, levels) ==
    IF features = <<>> THEN 0
    ELSE (IF FeatureRisk(Head(features)) \in LowerAll(levels)
          THEN NumNonEmpty(OuterRingSeq(Head(features).geometry)) ELSE 0)
         + QualifyingCount(Tail(features), levels)

\* C13: build_avoid_multipolygon never returns more than limit polygons, for
\* any dataset of Polygon and MultiPolygon zones and any limit >= 0, and it
\* returns None, never a MultiPolygon with an empty coordinate list, when no
\* polygon qualifies, as when the avoid levels are empty or the limit is 0.
C13_AtMostLimitElseNone ==
    Returned("build_avoid_multipolygon") =>
        /\ fn.ret # NoneGeometry =>
              /\ fn.ret.type = "MultiPolygon"
              /\ Len(fn.ret.coordinates) >= 1
              /\ Len(fn.ret.coordinates) <= fn.args.limit
        /\ (\/ QualifyingCount(fn.args.features, fn.args.avoid_risk_levels) = 0
            \/ fn.args.avoid_risk_levels = <<>>
            \/ fn.args.limit = 0) => fn.ret = NoneGeometry

\* a limit of 1 cut the result short: two polygons qualified, one is returned
C13_Witness ==
    /\ Returned("build_avoid_multipolygon")
    /\ fn.args.limit = 1
    /\ QualifyingCount(fn.args.features, fn.args.avoid_risk_levels) >= 2
    /\ fn.args.features[1].geometry.type = "MultiPolygon"
    /\ fn.ret # NoneGeometry
    /\ Len(fn.ret.coordinates) = 1

RiskLevels == {"safe", "caution", "forbidden"}

\* the labels of the predictions that contain "high" in some letter case
HighLabels == {"High Risk", "HIGH RISK", "high"}

PassReturned == Returned("get_safety_polygons") /\ fn.ret.ok

\* C14: after every annotation pass every zone's risk_level is one of safe,
\* caution, forbidden, and every zone whose predicted_label contains "high"
\* in any letter case is forbidden whatever its safety score.
C14_RiskLevelDomainAndHighForbidden ==
    PassReturned =>
        /\ Len(fn.ret.features) = NumZones
        /\ \A i \in 1..Len(fn.ret.features) :
              /\ fn.ret.features[i].risk_level \in RiskLevels
              /\ fn.ret.features[i].predicted_label \in HighLabels
                    => fn.ret.features[i].risk_level = "forbidden"

\* a zone labelled HIGH RISK with safe probability 0.8 came out forbidden
C14_Witness ==
    /\ PassReturned
    /\ \E i \in 1..Len(fn.ret.features) :
          /\ fn.ret.features[i].predicted_label = "HIGH RISK"
          /\ fn.ret.features[i].safety_score = 8000
          /\ fn.ret.features[i].risk_level = "forbidden"

\* C15: when the classifier returns fewer predictions than there are zones
\* the pass still completes and returns every zone, and each zone at or
\* beyond the prediction count is forbidden with safety score 0.5.
C15_UnscoredZonesForbidden ==
    (Returned("get_safety_polygons") /\ fn.args.pred.ok
     /\ Len(fn.args.pred.preds) < NumZones) =>
        /\ fn.ret.ok
        /\ Len(fn.ret.features) = NumZones
        /\ fn.ret.data.metadata.total_features = NumZones
        /\ \A i \in (Len(fn.args.pred.preds) + 1)..NumZones :
              /\ fn.ret.features[i].risk_level = "forbidden"
              /\ fn.ret.features[i].safety_score = DefaultScore

\* one prediction for two zones: the first zone is scored safe, the second,
\* safe after the pass before, is forbidden with score 0.5
C15_Witness ==
    /\ PassReturned
    /\ passes = 2
    /\ fn.args.pred.preds = <<PredSafe>>
    /\ fn.ret.features[1].risk_level = "safe"
    /\ fn.ret.features[2].risk_level = "forbidden"
    /\ fn.ret.features[2].safety_score = DefaultScore
    /\ fn.ret.features[2].predicted_label = "Unknown"
    /\ fn.ret.features[2].matched_station = "narela"

\* C16: when the live air-quality fetch returns an empty mapping, or fails,
\* or live conditions are disabled, the pass completes with metadata
\* median_aqi 150.0 and every zone of the returned dataset, scored or not,
\* carries the air-quality value 150.0.
C16_DefaultAqiEverywhere ==
    (/\ Returned("get_safety_polygons")
     /\ fn.args.pred.ok
     /\ \/ ~fn.args.use_current_conditions
        \/ ~fn.args.aqi.ok
        \/ fn.args.aqi.data = <<>>) =>
        /\ fn.ret.ok
        /\ fn.ret.data.metadata.median_aqi = 2 * DefaultAqi
        /\ \A i \in 1..Len(fn.ret.features) : fn.ret.features[i].aqi = DefaultAqi

\* C17: when the primary provider call succeeds the metadata has
\* fallback_used false, avoid_risk_levels equal to the effective avoid levels
\* and a polygon count equal to the number of avoidance polygons attached to
\* that call; with avoid levels ["forbidden"], a forbidden zone with a
\* non-empty outer ring and neither endpoint inside such a zone, the count
\* is at least 1.
C17_PrimarySuccessMetadata ==
    \A t \in Tasks :
        (/\ task[t].pc = "done"
         /\ task[t].response.kind = "ok"
         /\ task[t].op = "safe_route"
         /\ Len(task[t].ors_calls) = 1) =>
            /\ task[t].ors_calls[1].status = 200
            /\ task[t].response.metadata.fallback_used = FALSE
            /\ task[t].response.metadata.avoid_risk_levels = task[t].effective_avoid_levels
            /\ task[t].response.metadata.avoid_polygons_count = task[t].ors_calls[1].avoid_count
            /\ (/\ task[t].avoid_risk_levels = <<"forbidden">>
                /\ \E i \in 1..Len(task[t].seen_risk) :
                      /\ task[t].seen_risk[i] = "forbidden"
                      /\ \E ring \in OuterRings(BOUNDARIES[i].geometry) : ring # <<>>
                /\ ~EndpointInAvoidedZone(t))
               => task[t].response.metadata.avoid_polygons_count >= 1

\* the provider accepted a request that avoided the forbidden MultiPolygon zone
C17_Witness ==
    \E t \in Tasks :
        /\ task[t].pc = "done"
        /\ task[t].response.kind = "ok"
        /\ Len(task[t].ors_calls) = 1
        /\ task[t].avoid_risk_levels = <<"forbidden">>
        /\ task[t].seen_risk = <<"safe", "forbidden">>
        /\ ~EndpointInAvoidedZone(t)
        /\ task[t].response.metadata.avoid_risk_levels = <<"forbidden">>
        /\ task[t].response.metadata.avoid_polygons_count = 2
        /\ ~task[t].response.metadata.fallback_used

\* C18: for a non-empty ring _bisect_bbox returns exactly 5 points, the first
\* equal to the last, and every vertex of the ring lies within the returned
\* box's longitude and latitude bounds inclusive, also after the corners are
\* rounded to 5 decimal digits; for empty input it returns None.
C18_BboxFivePointsContainsRing ==
    Returned("_bisect_bbox") =>
        IF fn.args = <<>> THEN fn.ret = NoneRing
        ELSE /\ Len(fn.ret) = 5
             /\ fn.ret[1] = fn.ret[5]
             /\ \A i \in 1..Len(fn.args) :
                   /\ fn.ret[1][1] <= fn.args[i][1] /\ fn.args[i][1] <= fn.ret[3][1]
                   /\ fn.ret[1][2] <= fn.args[i][2] /\ fn.args[i][2] <= fn.ret[3][2]

\* C19: for every closed ring R and every point P, point_in_polygon(P, R)
\* gives the same result for every cyclic rotation of R's starting vertex.
C19_RotationInvariant ==
    Returned("point_in_polygon") => fn.ret.polygon = fn.ret.rotated

\* a point inside the concave ring is inside the ring started two vertices later
C19_Witness ==
    /\ Returned("point_in_polygon")
    /\ fn.args.point = <<10, 27>>
    /\ fn.args.polygon = Closed(<< <<0, 0>>, <<40, 0>>, <<20, 20>>, <<40, 40>>, <<0, 40>> >>)
    /\ fn.args.rotated = Closed(<< <<20, 20>>, <<40, 40>>, <<0, 40>>, <<0, 0>>, <<40, 0>> >>)
    /\ fn.ret.polygon /\ fn.ret.rotated

\* C20: for a label that does not contain "high", _classify_risk_level
\* returns safe exactly when score >= 0.7, caution exactly when
\* 0.4 <= score < 0.7 and forbidden exactly when score < 0.4; the scores 0.7
\* and 0.4 themselves map to safe and caution.
C20_ScoreThresholds ==
    (Returned("_classify_risk_level") /\ fn.args.predicted_label \notin HighLabels) =>
        /\ fn.ret = "safe" <=> fn.args.safety_score >= 7000
        /\ fn.ret = "caution" <=> (4000 <= fn.args.safety_score /\ fn.args.safety_score < 7000)
        /\ fn.ret = "forbidden" <=> fn.args.safety_score < 4000

\* score 0.4 with a label without "high" is caution
C20_Witness ==
    /\ Returned("_classify_risk_level")
    /\ fn.args.predicted_label = "Moderate Risk"
    /\ fn.args.safety_score = 4000
    /\ fn.ret = "caution"

\* the bounding boxes of the non-empty outer rings, in order
RECURSIVE BoxesOf(_)
BoxesOf(rings) ==
    IF rings = <<>> THEN <<>>
    ELSE (IF Head(rings) # <<>> THEN << <<_bisect_bbox(Head(rings))>> >> ELSE <<>>)
         \o BoxesOf(Tail(rings))

\* what an unlimited call returns: the boxes of every avoided zone, in source
\* order of zones and of sub-polygons
RECURSIVE AllQualifying(_, _)
AllQualifying(features, levels) ==
    IF features = <<>> THEN <<>>
    ELSE (IF FeatureRisk(Head(features)) \in LowerAll(levels)
          THEN BoxesOf(OuterRingSeq(Head(features).geometry)) ELSE <<>>)
         \o AllQualifying(Tail(features), levels)

\* C21: when more than limit polygons qualify, build_avoid_multipolygon
\* returns exactly the first limit polygons, in source order of zones and of
\* sub-polygons within a MultiPolygon zone, of what an unlimited call returns.
C21_TruncatesToFirstLimit ==
    (/\ Returned("build_avoid_multipolygon")
     /\ fn.args.limit >= 1
     /\ Len(AllQualifying(fn.args.features, fn.args.avoid_risk_levels)) > fn.args.limit) =>
        /\ fn.ret # NoneGeometry
        /\ fn.ret.coordinates =
               SubSeq(AllQualifying(fn.args.features, fn.args.avoid_risk_levels),
                      1, fn.args.limit)

\* a Polygon zone then a MultiPolygon zone with limit 2: the triangle's box
\* and the first square's box are returned, the second square's is cut
C21_Witness ==
    /\ Returned("build_avoid_multipolygon")
    /\ fn.args.limit = 2
    /\ Len(fn.args.features) = 2
    /\ fn.args.features[1].geometry = BOUNDARIES[1].geometry
    /\ fn.args.features[2].geometry = BOUNDARIES[2].geometry
    /\ Len(AllQualifying(fn.args.features, fn.args.avoid_risk_levels)) = 3
    /\ fn.ret # NoneGeometry
    /\ fn.ret.coordinates =
           << <<_bisect_bbox(BOUNDARIES[1].geometry.coordinates[1])>>,
              <<_bisect_bbox(BOUNDARIES[2].geometry.coordinates[1][1])>> >>

\* C22: build_avoid_multipolygon skips any ring that fails to close: a
\* matching zone's outer ring whose first and last coordinates differ
\* contributes no polygon to the avoidance geometry.
C22_UnclosedRingsSkipped ==
    (/\ Returned("build_avoid_multipolygon")
     /\ Len(fn.args.features) = 1
     /\ fn.args.features[1].geometry = UnclosedPolygon
     /\ FeatureRisk(fn.args.features[1]) \in LowerAll(fn.args.avoid_risk_levels)
     /\ fn.args.limit >= 1
     /\ UnclosedPolygon.coordinates[1][1] # UnclosedPolygon.coordinates[1][3]) =>
        fn.ret = NoneGeometry

\* C23: point_in_polygon returns false, without raising, for every
\* degenerate ring: an empty ring and any ring with fewer than 3 points.
C23_DegenerateRingFalse ==
    (Returned("point_in_polygon(ring)") /\ Len(fn.args.polygon) < 3) =>
        ~fn.ret.raised /\ ~fn.ret.value

\* the west, east, south and north bounds of a ring
West(ring) == SeqMin(Lons(ring))
East(ring) == SeqMax(Lons(ring))
South(ring) == SeqMin(Lats(ring))
North(ring) == SeqMax(Lats(ring))

StrictlyInside(point, ring) ==
    /\ West(ring) < point[2] /\ point[2] < East(ring)
    /\ South(ring) < point[1] /\ point[1] < North(ring)

StrictlyOutside(point, ring) ==
    \/ point[2] < West(ring) \/ point[2] > East(ring)
    \/ point[1] < South(ring) \/ point[1] > North(ring)

\* C24: for an axis-aligned rectangular closed ring point_in_polygon returns
\* true for every point strictly inside the rectangle and false for every
\* point strictly outside it, also when the point's latitude is that of a
\* horizontal edge or of a vertex, and it does not raise on horizontal edges.
C24_RectangleInsideOutside ==
    (/\ Returned("point_in_polygon(ring)")
     /\ fn.args.polygon \in RectangleRings
     /\ West(fn.args.polygon) < East(fn.args.polygon)
     /\ South(fn.args.polygon) < North(fn.args.polygon)) =>
        /\ ~fn.ret.raised
        /\ StrictlyInside(fn.args.point, fn.args.polygon) => fn.ret.value
        /\ StrictlyOutside(fn.args.point, fn.args.polygon) => ~fn.ret.value

\* a point west of the rectangle on the latitude of its north edge is outside
C24_Witness ==
    /\ Returned("point_in_polygon(ring)")
    /\ fn.args.polygon = Closed(<< <<0, 0>>, <<40, 0>>, <<40, 20>>, <<0, 20>> >>)
    /\ fn.args.point = <<20, 0 - 10>>
    /\ StrictlyOutside(fn.args.point, fn.args.polygon)
    /\ ~fn.ret.raised /\ ~fn.ret.value

\* class names that contain a safe hint ("safe" is in "unsafe") or a danger hint
SafeClassNames == {"Safe", "Unsafe"}
DangerClassNames == {"High Risk"}

\* the index of the first class among names, 0 when there is none
FirstClassIn(order, names) ==
    IF \E i \in 1..Len(order) : order[i] \in names
    THEN CHOOSE i \in 1..Len(order) :
            order[i] \in names /\ \A j \in 1..(i - 1) : order[j] \notin names
    ELSE 0

\* C25: _extract_safe_probability applies its rules in strict precedence: an
\* empty or null vector gives 0.5; otherwise the probability of the first
\* class whose label has a safe hint; otherwise 1 minus the probability of
\* the first class whose label has a danger hint; otherwise, also for an
\* empty class order, the probability of the last class; and the result is
\* in [0,1] for any vector with entries in [0,1].  The second and third rule
\* are stated for vectors that have an entry for the class they name.
C25_ExtractPrecedence ==
    Returned("_extract_safe_probability") =>
        LET v == fn.args.prob_vector
            safe_idx == FirstClassIn(fn.args.class_order, SafeClassNames)
            danger_idx == FirstClassIn(fn.args.class_order, DangerClassNames)
        IN  /\ 0 <= fn.ret /\ fn.ret <= 10000
            /\ (fn.args.is_none \/ v = <<>>) => fn.ret = 5000
            /\ (v # <<>> /\ safe_idx # 0 /\ safe_idx <= Len(v)) => fn.ret = v[safe_idx]
            /\ (v # <<>> /\ safe_idx = 0 /\ danger_idx # 0 /\ danger_idx <= Len(v))
                  => fn.ret = 10000 - v[danger_idx]
            /\ (v # <<>> /\ safe_idx = 0 /\ danger_idx = 0) => fn.ret = v[Len(v)]

\* the danger class comes first in the order and the safe class second: the
\* safe class's probability is returned, not 1 minus the danger class's
C25_Witness ==
    /\ Returned("_extract_safe_probability")
    /\ fn.args.class_order = <<"High Risk", "Safe">>
    /\ fn.args.prob_vector = <<10000, 2500>>
    /\ fn.ret = 2500

\* C26: every zone of an annotated dataset, scored or unscored, carries an
\* id of the form zone_### made from its row index in the boundary set.
C26_ZoneIdByRowIndex ==
    PassReturned =>
        \A i \in 1..Len(fn.ret.features) :
            fn.ret.features[i].station_id = "zone_" \o ZeroPad3(i - 1)

\* a batch result has an item for station key s, under s or under a key
\* equal to it in lower case
ValueObtained(s) ==
    \E b \in 1..Len(gemini.results) : \E j \in 1..Len(gemini.results[b]) :
        Lower(gemini.results[b][j].key) = Lower(s)

\* C27: with an API key configured fetch_aqi_from_gemini does not raise and
\* returns a mapping with an entry for every requested station, every value
\* within [0, 1000], and 150.0 for every station no value was obtained for.
C27_EntryForEveryStation ==
    (Returned("fetch_aqi_from_gemini") /\ fn.args.gemini_api_key # "") =>
        /\ ~fn.ret.raised
        /\ \A j \in 1..Len(fn.args.police_stations) :
              /\ fn.args.police_stations[j] \in DictKeys(fn.ret.value)
              /\ ~ValueObtained(fn.args.police_stations[j])
                    => DictGet(fn.ret.value, fn.args.police_stations[j]) = DefaultAqi
        /\ \A j \in 1..Len(fn.ret.value) :
              0 <= fn.ret.value[j].value /\ fn.ret.value[j].value <= MaxAqi

\* C28: a call of call_gemini_for_batch sends at most max_retries requests,
\* whatever their outcomes, so the fetch sends at most batches x max_retries;
\* and once an attempt has got a 200 response with a JSON object of values,
\* the call for that batch has returned the values parsed from it.
C28_BoundedRetriesFirstSuccess ==
    fn.name = "fetch_aqi_from_gemini" =>
        /\ Len(gemini.requests) <= Len(gemini.batches)
        /\ \A b \in 1..Len(gemini.requests) : gemini.requests[b] <= fn.args.max_retries
        /\ (gemini.pc \in {"sleep", "delay", "done"}
            /\ gemini.resp.status = 200 /\ gemini.resp.body # <<>>)
              => /\ gemini.pc # "sleep"
                 /\ Len(gemini.results) > 0
                 /\ gemini.results[Len(gemini.results)] = BatchResult(gemini.resp.body)

\* C29: whenever avoidance polygons are attached to the primary provider
\* request, neither the start nor the end point lies inside any of the
\* attached polygons, which are the bounding boxes of the avoided zones.
C29_EndpointsOutsideAttachedPolygons ==
    \A t \in Tasks :
        (task[t].op = "safe_route" /\ Len(task[t].ors_calls) >= 1) =>
            \A k \in 1..Len(task[t].ors_calls[1].avoid_polygons) :
                LET box == task[t].ors_calls[1].avoid_polygons[k][1]
                IN  /\ ~StrictlyInside(task[t].start_coords, box)
                    /\ ~StrictlyInside(task[t].end_coords, box)

\* the dataset as the request of t saw it
SeenFeatures(t) ==
    [i \in 1..Len(task[t].seen_risk) |->
        [properties |-> [risk_level |-> task[t].seen_risk[i]],
         geometry |-> BOUNDARIES[i].geometry]]

\* C30: in safe_route, if neither endpoint lies inside a zone whose risk level
\* is in the requested avoid set, the effective avoid levels are the requested
\* normalized levels and the polygons attached to the primary call are those
\* of build_avoid_multipolygon of the dataset for these levels: the boxes of
\* every zone of these levels, up to the limit; an endpoint inside a zone of
\* another risk level does not suppress avoidance.
C30_AvoidanceKeptWhenEndpointsClear ==
    \A t \in Tasks :
        (/\ task[t].op = "safe_route"
         /\ Len(task[t].ors_calls) >= 1
         /\ ~EndpointInAvoidedZone(t)) =>
            LET boxes == AllQualifying(SeenFeatures(t), task[t].avoid_risk_levels)
            IN  /\ task[t].effective_avoid_levels = task[t].avoid_risk_levels
                /\ task[t].ors_calls[1].avoid_polygons =
                      SubSeq(boxes, 1, Min2(AvoidLimit, Len(boxes)))

\* the start is inside the triangle zone, which is not forbidden, and the
\* primary call still avoids both squares of the forbidden zone
C30_Witness ==
    \E t \in Tasks :
        /\ task[t].op = "safe_route"
        /\ Len(task[t].ors_calls) >= 1
        /\ task[t].start_coords = PointInTriangle
        /\ point_in_polygon(task[t].start_coords, BOUNDARIES[1].geometry.coordinates[1])
        /\ task[t].avoid_risk_levels = <<"forbidden">>
        /\ task[t].seen_risk[1] # "forbidden"
        /\ task[t].seen_risk[2] = "forbidden"
        /\ task[t].effective_avoid_levels = <<"forbidden">>
        /\ Len(task[t].ors_calls[1].avoid_polygons) = 2

\* C31: within one route request the containment check on both endpoints and
\* the avoidance-geometry build see the same risk_level of every zone, also
\* while other requests run annotation passes: the effective levels and the
\* polygons attached to the primary call both follow from the one set of risk
\* levels the request read.
C31_CheckAndBuildSeeOneSnapshot ==
    \A t \in Tasks :
        (task[t].op = "safe_route" /\ Len(task[t].ors_calls) >= 1) =>
            LET levels == IF EndpointInAvoidedZone(t) THEN <<>>
                          ELSE task[t].avoid_risk_levels
                boxes == AllQualifying(SeenFeatures(t), levels)
            IN  /\ task[t].effective_avoid_levels = levels
                /\ task[t].ors_calls[1].avoid_polygons =
                      SubSeq(boxes, 1, Min2(AvoidLimit, Len(boxes)))

\* the route request awaits the provider with avoidance attached while a pass
\* of the other request has since rewritten the risk level of a zone
C31_Witness ==
    /\ task[1].op = "safe_route"
    /\ task[1].pc = "call_ors"
    /\ Len(task[1].ors_calls[1].avoid_polygons) >= 1
    /\ task[2].op = "safety_areas"
    /\ task[2].pass_id > task[1].pass_id
    /\ \E i \in 1..NumZones :
          /\ task[1].seen_risk[i] = "forbidden"
          /\ zones[i].risk_level # "forbidden"

\* C32: every value served from the cache was produced by an invocation that
\* started less than the ttl of 30 minutes before the read: the served
\* dataset's generated_at is less than 30 minutes older than the read.
C32_ServedValueStartedWithinTtl ==
    \A t \in Tasks :
        (/\ task[t].read.made
         /\ task[t].read.invoked = 0
         /\ task[t].pc = "done"
         /\ task[t].response.kind = "ok"
         /\ task[t].op = "safety_areas") =>
            task[t].read.at - task[t].response.data.metadata.generated_at < CacheTtl

\* C33: for every scored zone whose predicted label does not contain "high",
\* the stored safety_score and the stored risk_level satisfy the thresholds
\* together: safe iff the stored score is at least 0.7, caution iff it is at
\* least 0.4 and below 0.7, forbidden iff it is below 0.4.
C33_StoredScoreMatchesRiskLevel ==
    PassReturned =>
        \A i \in 1..Min2(Len(fn.args.pred.preds), Len(fn.ret.features)) :
            LET props == fn.ret.features[i]
            IN  props.predicted_label \notin HighLabels =>
                    /\ props.risk_level = "safe" <=> props.safety_score >= SafeThreshold
                    /\ props.risk_level = "caution"
                          <=> (/\ props.safety_score >= CautionThreshold
                               /\ props.safety_score < SafeThreshold)
                    /\ props.risk_level = "forbidden"
                          <=> props.safety_score < CautionThreshold

\* C34: for every scored zone the air-quality value of the zone's annotation
\* is the value that was placed in the zone's classifier feature row, the
\* annotation holding it rounded to one decimal.
C34_AnnotationAqiIsFeatureRowAqi ==
    PassReturned =>
        \A i \in 1..Min2(Len(fn.args.pred.preds), Len(fn.ret.features)) :
            fn.ret.features[i].aqi = RoundAqi(fn.ret.rows[i])

\* the request of t has got its dataset, from the cache or from the producer
DatasetObtained(t) ==
    /\ task[t].read.made
    /\ task[t].read.invoked = 0 \/ task[t].read.stored_at # Absent

\* C35: if the annotated dataset obtained through the cache has no zones,
\* safe_route fails with 503 and makes no directions-provider call.
C35_NoZonesUnavailable ==
    \A t \in Tasks :
        (/\ task[t].op = "safe_route"
         /\ DatasetObtained(t)
         /\ task[t].read.got = <<>>) =>
            /\ task[t].pc = "done"
            /\ task[t].response.kind = "error"
            /\ task[t].response.status = 503
            /\ task[t].ors_calls = <<>>

\* a route request is refused with 503 on a dataset with no zones that it
\* found in the cache
C35_Witness ==
    \E t \in Tasks :
        /\ task[t].op = "safe_route"
        /\ env.boundary_count = 0
        /\ task[t].read.had_entry
        /\ task[t].read.invoked = 0
        /\ task[t].read.got = <<>>
        /\ task[t].response.status = 503
        /\ task[t].ors_calls = <<>>

\* the risk level a requested level names, whatever its case and padding
FoldedLevel(lvl) ==
    CASE lvl \in {"forbidden", "Forbidden"} -> "forbidden"
      [] lvl = " CAUTION " -> "caution"
      [] lvl = "Safe" -> "safe"
      [] OTHER -> ""

\* C36: an empty avoid_risk_levels list is normalized to ["forbidden"], so
\* forbidden zones stay avoided; otherwise a zone is avoided exactly when some
\* requested level names its risk level, whatever the level's case or padding.
C36_LevelsNormalized ==
    Returned("normalize_risk_levels") =>
        IF fn.args = <<>>
        THEN /\ fn.ret.levels = <<"forbidden">>
             /\ fn.ret.avoided = {"forbidden"}
        ELSE /\ \A i \in 1..Len(fn.ret.levels) :
                    fn.ret.levels[i] \in RiskLevels
             /\ \A z \in RiskLevels :
                    z \in fn.ret.avoided <=>
                        \E i \in 1..Len(fn.args) : FoldedLevel(fn.args[i]) = z

\* mixed-case, padded levels were normalized and matched the zones they name
C36_Witness ==
    /\ Returned("normalize_risk_levels")
    /\ fn.args = <<"Forbidden", " CAUTION ">>
    /\ fn.ret.levels = <<"forbidden", "caution">>
    /\ fn.ret.avoided = {"forbidden", "caution"}

====
